---------------------------- MODULE Spec2Model ----------------------------
(***************************************************************************)
(* State-machine model of the enrichment / audit scripts of the camellia   *)
(* nomenclature repository:                                                *)
(*   scripts/enrich_icr_chinese_name.py  (checkpointed ICR page fetcher)   *)
(*   image_enrich_strict.py              (four-source image chain)         *)
(*   icr_match_audit.py                  (fuzzy ICR name audit)            *)
(*   acs_audit.py, acs_backfill_audit.py (concurrent URL validation)       *)
(*                                                                         *)
(* One script runs at a time (variable script).  The disk (checkpoint,     *)
(* cache and progress files) survives a kill of the process; the memory    *)
(* of the process does not.                                                *)
(*                                                                         *)
(* Time.  The scripts only ever compare "time.time() - t" with a delay,    *)
(* so every timestamp t is kept as the number of seconds that have passed  *)
(* since t, saturated at the delay (a value of delay reads "delay seconds  *)
(* ago or earlier").  The passing of time (Tick, a sleep) adds to every    *)
(* such value at once.                                                     *)
(***************************************************************************)
EXTENDS Integers, Sequences, FiniteSets, TLC

VARIABLES
    script,             \* which script this execution is about
    pc,                 \* position of the running process ("off": no process)
    \* ---- scripts/enrich_icr_chinese_name.py : disk
    src,                \* what the ICR site answers for each URL
    cp_files,           \* checkpoint files: path index (1 main, 2 mirror) -> checkpoint
    cache_file,         \* url cache file: url -> UrlResult
    processed_log,      \* lines of the processed jsonl log
    failed_log,         \* lines of the failed jsonl log
    \* ---- scripts/enrich_icr_chinese_name.py : memory of the process
    args,               \* command line: resume, max_urls
    checkpoint,         \* the checkpoint dict
    cache,              \* the url cache dict
    i,                  \* loop index
    processed_this_run,
    result_map,         \* the cache handed to update_file when the loop is left
    \* ---- image_enrich_strict.py : disk
    progress_file,      \* image_enrichment_progress.json: name -> result
    \* ---- image_enrich_strict.py : memory of the process
    progress,           \* the progress dict
    added,              \* list of found entries
    skipped_ambiguous,  \* list of ambiguous entries
    missing,            \* list of entries without image
    stats,              \* counters per source / ambiguous / missing
    last_icr_time,      \* _last_icr_time
    variant,            \* position in the ICR query variants of the request in flight
    \* ---- icr_match_audit.py (its progress dict and file are progress, progress_file)
    all_candidates,     \* search_icr: candidates gathered so far
    search_result,      \* the dict search_icr returned last
    full_json,          \* icr_match_audit_full.json: the list write_outputs wrote last
    \* ---- history of the current run (observation only)
    start_store,        \* the persisted store (url cache, progress) a resumed run started from
    start_index,        \* i when the loop was entered
    probed,             \* units for which a network request was issued in this run
    returned,           \* what each strategy invoked for the unit being processed (or just
                        \* finished) returned: [name, rets]
    last_saved,         \* next_index written by the latest checkpoint save of this run
    ever_reset,         \* some start ran without --resume although the disk held a checkpoint
    since_request,      \* seconds since the latest request to the rate-limited source
    last_gap,           \* seconds between the latest two such requests of this run
    waiting,            \* waiting[k]: tasks about to make their k-th probe
    in_flight,          \* in_flight[k]: tasks inside their k-th probe
    finished,           \* tasks that returned
    semaphore,          \* value of the asyncio.Semaphore
    num_threads,        \* threads the ThreadPoolExecutor has started
    work_queue,         \* work items submitted to the pool and not yet taken
    tasks,              \* run_audit: where the check_entry task of each entry stands
    results_by_name,    \* run_audit: the results dict (name -> audit result)
    torn,               \* files a kill or a failed write left truncated or partial
    io_failed,          \* a write of the store failed in this run
    discarded,          \* cache keys persisted before the latest start without --resume
    notified            \* how the latest progress notification of this run ended

vars == << script, pc, src, cp_files, cache_file, processed_log, failed_log,
           args, checkpoint, cache, i, processed_this_run, result_map,
           progress_file, progress, added, skipped_ambiguous, missing, stats,
           last_icr_time, variant, all_candidates, search_result, full_json,
           start_store, start_index, probed, returned, last_saved, ever_reset,
           since_request, last_gap, waiting, in_flight, finished, semaphore,
           num_threads, work_queue, tasks, results_by_name, torn, io_failed, discarded,
           notified >>

enrichDisk == << src, cp_files, cache_file, processed_log, failed_log >>
enrichMem  == << args, checkpoint, cache, i, processed_this_run, result_map >>
enrichHist == << start_store, start_index, probed, last_saved, ever_reset >>
clockVars  == << since_request, last_gap >>
imageVars  == << progress_file, progress, added, skipped_ambiguous, missing, stats,
                 last_icr_time, variant, returned >>
imageLists == << added, skipped_ambiguous, missing, stats >>
auditVars  == << all_candidates, search_result, full_json >>
gatherVars == << tasks, results_by_name >>
concVars   == << waiting, in_flight, finished, semaphore, num_threads, work_queue,
                 gatherVars >>
ioVars     == << torn, io_failed, discarded, notified >>

---------------------------------------------------------------------------
\* Bounds of the model.
NumUrls == 2
NumEntries == 2
NumNames == 2
MaxCandidates == 2
NumProbes == 22
NumMirrors == 2
NumRecords == 2
NumTasks == 3
MaxAttempts == 2
TickSeconds == 4

\* Program constants.
delay == 8
ICR_DELAY == 8
RATE_LIMIT_SECONDS == 8
CONCURRENCY == 20
workers == 10
\* Scores are round(ratio, 4), kept in ten-thousandths: 0.95, 0.6 and the
\* margin 0.05 of search_icr.
EXACT_SCORE == 9500
FUZZY_SCORE == 6000
AMBIGUOUS_MARGIN == 500

Min(a, b) == IF a < b THEN a ELSE b
Max(a, b) == IF a > b THEN a ELSE b

EmptyMap == [x \in {} |-> x]
Put(f, k, v) == [x \in DOMAIN f \cup {k} |-> IF x = k THEN v ELSE f[x]]

\* A timestamp that lies d more seconds back (saturated at cap).
ElapseCap(ts, d, cap) == Min(ts + d, cap)
Elapse(ts, d) == ElapseCap(ts, d, delay)

None == "None"

\* last_saved before the first checkpoint save of a run.
NoSave == 0 - 1

\* How the call of the external openclaw command can end: exit status 0, a
\* non-zero exit status, subprocess.TimeoutExpired after 10 seconds,
\* FileNotFoundError because the command is not installed.
NotifyOutcomes == {"ok", "nonzero", "timeout", "absent"}

send_event_unguarded(outcome) ==
    IF outcome \in {"timeout", "absent"} THEN "raised" ELSE "returned"

\* icr_match_audit.py, send_event: subprocess.run without check=True inside
\* try / except Exception: pass.  The result is how control leaves the call.
send_event(outcome) == "returned"

\* acs_audit.py, send_progress_event: the same shape.
send_progress_event(outcome) == "returned"

\* The progress event of icr_match_audit is sent every EVENT_EVERY names
\* processed in the run (done_count - last_event_count >= 10, line 278).
EVENT_EVERY == 10
PROGRESS_INTERVAL == 500

\* Where a script is when no run of it is alive: not started or killed, run
\* to its end, ended by an exception at startup, ended by a failed write.
Stopped == {"off", "done", "crashed", "aborted"}

AfterWriteErrorSwallowed == "loop"

\* Where a script stands after a write of its store raised: no except clause
\* is around the saves, the exception ends the run.
AfterWriteError == "aborted"

---------------------------------------------------------------------------
\* scripts/enrich_icr_chinese_name.py

\* collect_unique_icr_urls yields distinct URLs; a URL is named by its position.
total == NumUrls
urls == [k \in 0 .. total - 1 |-> k]

\* str(e) of the exceptions a request raises: the message text of the
\* exception, whatever its class.
Str(e) ==
    IF e = "Timeout" THEN "Read timed out. (read timeout=20)"
    ELSE IF e = "ConnectionError" THEN "Max retries exceeded with url"
    ELSE IF e = "ClientConnectorError" THEN "Cannot connect to host"
    ELSE IF e = "TimeoutError" THEN ""
    ELSE e

\* What session.get can do: return a page with a Chinese name, a page without
\* one, an HTTP error, or raise.
Responses ==
    { [raised |-> "", status_code |-> "200", names |-> << "zh1" >>],
      [raised |-> "", status_code |-> "200", names |-> << >>],
      [raised |-> "", status_code |-> "500", names |-> << >>],
      [raised |-> "Timeout", status_code |-> None, names |-> << >>] }

fetch_one(resp) ==
    IF resp.raised # ""
      THEN [chinese_name |-> << >>, status |-> "failed", http_status |-> None,
            error |-> Str(resp.raised)]
    ELSE IF resp.status_code # "200"
      THEN [chinese_name |-> << >>, status |-> "failed", http_status |-> resp.status_code,
            error |-> "HTTP " \o resp.status_code]
      ELSE IF resp.names # << >>
        THEN [chinese_name |-> resp.names, status |-> "ok",
              http_status |-> resp.status_code, error |-> ""]
        ELSE [chinese_name |-> << >>, status |-> "missing",
              http_status |-> resp.status_code, error |-> ""]

\* Every way a single session.get can end.
FetchOutcomes ==
    Responses \cup {[raised |-> "ConnectionError", status_code |-> None, names |-> << >>]}

\* The names a name list keeps when the url cache is read back: strings with
\* a CJK character ("zh..." here), each once, in order.
IsCjk(n) == n \in {"zh1", "zh2"}
RECURSIVE CleanNames(_)
CleanNames(names) ==
    IF names = << >> THEN << >>
    ELSE LET front == CleanNames(SubSeq(names, 1, Len(names) - 1))
             n == names[Len(names)]
         IN IF IsCjk(n) /\ \A k \in 1 .. Len(front) : front[k] # n
              THEN Append(front, n) ELSE front

load_url_cache(file, reset) ==
    IF reset THEN EmptyMap
    ELSE [u \in DOMAIN file |->
            [chinese_name |-> CleanNames(file[u].chinese_name),
             status |-> file[u].status,
             http_status |-> file[u].http_status,
             error |-> file[u].error]]

\* save_url_cache: asdict of every entry.
save_url_cache(c) == c

\* load_checkpoint(reset=True): a new checkpoint; last_request_ts = 0.0 is the
\* epoch, i.e. at least delay seconds ago.
NewCheckpoint == [next_index |-> 0, last_request_ts |-> delay]

\* The mirror max() returns: highest next_index, the first such in path order.
\* (Mirrors that agree on next_index were written from the same dict.)
BestPath(files) ==
    CHOOSE p \in DOMAIN files :
        \A q \in DOMAIN files :
            \/ files[q].next_index < files[p].next_index
            \/ files[q].next_index = files[p].next_index /\ p <= q

load_best_checkpoint(files, reset) ==
    IF reset \/ DOMAIN files = {} THEN NewCheckpoint ELSE files[BestPath(files)]

\* The index the loop starts from (lines 373-387).
StartIndex(cp, resume) ==
    IF resume THEN Max(0, Min(cp.next_index, total)) ELSE cp.next_index

NextIndexStuck(k) == k

\* The value i takes at the end of a unit (line 416).
NextIndex(k) == k + 1

MaxUrlsChoices == {0, 1}

\* Line 397 with > for >=: the limit is noticed one unit late.
LimitReachedLate == args.max_urls > 0 /\ processed_this_run > args.max_urls

LimitReached == args.max_urls > 0 /\ processed_this_run >= args.max_urls

NoArgs == [resume |-> FALSE, max_urls |-> 0]

\* The file each position of main writes next, and the name of a mirror.
CpName == << "cp1", "cp2" >>
WriteAt == [at \in {"start_mirror", "save_cp", "save_mirror", "save_cache"} |->
              IF at = "save_cp" THEN "cp1" ELSE IF at = "save_cache" THEN "cache" ELSE "cp2"]

\* The checkpoint files load_json can read.
ReadableFiles(files, unreadable) ==
    [p \in {q \in DOMAIN files : CpName[q] \notin unreadable} |-> files[p]]

\* Time passes by d seconds: every kept timestamp lies d seconds further back.
PassTime(d) ==
    /\ cp_files' = [p \in DOMAIN cp_files |->
                      [cp_files[p] EXCEPT !.last_request_ts = Elapse(@, d)]]
    /\ since_request' = Elapse(since_request, d)

\* Lines 352-376 up to the first file written by save_checkpoints.
EnrichStart(resume, max_urls) ==
    /\ script = "enrich_icr_chinese_name"
    /\ pc \in Stopped
    /\ IF resume /\ "cache" \in torn
         THEN \* load_json raises in load_url_cache: the run ends at line 370.
              /\ pc' = "crashed"
              /\ UNCHANGED << args, checkpoint, cp_files, last_saved, cache, start_store,
                              probed, ever_reset, clockVars, i, processed_this_run,
                              result_map, start_index, torn, discarded, notified >>
              /\ io_failed' = FALSE
         ELSE /\ args' = [resume |-> resume, max_urls |-> max_urls]
              /\ LET cp == load_best_checkpoint(ReadableFiles(cp_files, torn), ~resume)
                     cp0 == IF ~resume THEN [cp EXCEPT !.next_index = 0] ELSE cp
                 IN /\ checkpoint' = cp0
                    /\ cp_files' = Put(cp_files, 1, cp0)
                    /\ last_saved' = cp0.next_index
              /\ cache' = load_url_cache(cache_file, ~resume)
              /\ start_store' = IF resume THEN cache_file ELSE EmptyMap
              /\ probed' = {}
              /\ ever_reset' = (ever_reset \/ (DOMAIN cp_files # {} /\ ~resume))
              /\ since_request' = delay
              /\ last_gap' = delay
              /\ i' = 0
              /\ processed_this_run' = 0
              /\ result_map' = EmptyMap
              /\ start_index' = 0
              /\ discarded' = IF resume THEN discarded ELSE DOMAIN cache_file
              /\ UNCHANGED notified
              /\ torn' = torn \ {"cp1"}
              /\ io_failed' = FALSE
              /\ pc' = "start_mirror"
    /\ UNCHANGED imageVars
    /\ UNCHANGED auditVars
    /\ UNCHANGED concVars
    /\ UNCHANGED << script, src, cache_file, processed_log, failed_log >>

\* The second file of save_checkpoints (line 376), then lines 379-394.
EnrichStartMirror ==
    /\ script = "enrich_icr_chinese_name"
    /\ pc = "start_mirror"
    /\ cp_files' = Put(cp_files, 2, checkpoint)
    /\ last_saved' = checkpoint.next_index
    /\ LET k == StartIndex(checkpoint, args.resume)
       IN /\ checkpoint' = [checkpoint EXCEPT !.next_index = k]
          /\ i' = k
          /\ start_index' = k
    /\ processed_this_run' = 0
    /\ pc' = "loop"
    /\ UNCHANGED imageVars
    /\ UNCHANGED auditVars
    /\ UNCHANGED concVars
    /\ torn' = torn \ {"cp2"}
    /\ UNCHANGED << io_failed, discarded, notified >>
    /\ UNCHANGED << script, src, cache_file, processed_log, failed_log,
                    args, cache, result_map, start_store, probed,
                    ever_reset, clockVars >>

\* Lines 396-402: the URL is in the cache, no request.
EnrichCacheHit ==
    /\ script = "enrich_icr_chinese_name"
    /\ pc = "loop"
    /\ i < total /\ ~LimitReached
    /\ urls[i] \in DOMAIN cache
    /\ pc' = "log"
    /\ UNCHANGED imageVars
    /\ UNCHANGED auditVars
    /\ UNCHANGED concVars
    /\ UNCHANGED ioVars
    /\ UNCHANGED << script, enrichDisk, enrichMem, enrichHist, clockVars >>

\* Lines 403-407: sleep out the rest of the delay, then send the request.
EnrichDispatch ==
    /\ script = "enrich_icr_chinese_name"
    /\ pc = "loop"
    /\ i < total /\ ~LimitReached
    /\ urls[i] \notin DOMAIN cache
    /\ LET elapsed == checkpoint.last_request_ts
           slept == IF elapsed < delay THEN delay - elapsed ELSE 0
       IN /\ cp_files' = [p \in DOMAIN cp_files |->
                            [cp_files[p] EXCEPT !.last_request_ts = Elapse(@, slept)]]
          /\ checkpoint' = [checkpoint EXCEPT !.last_request_ts = Elapse(@, slept)]
          /\ last_gap' = Elapse(since_request, slept)
          /\ since_request' = 0
    /\ probed' = probed \cup {urls[i]}
    /\ pc' = "fetch"
    /\ UNCHANGED imageVars
    /\ UNCHANGED auditVars
    /\ UNCHANGED concVars
    /\ UNCHANGED ioVars
    /\ UNCHANGED << script, src, cache_file, processed_log, failed_log,
                    args, cache, i, processed_this_run, result_map,
                    start_store, start_index, last_saved, ever_reset >>

\* Lines 407-409: the answer arrives.
EnrichFetched ==
    /\ script = "enrich_icr_chinese_name"
    /\ pc = "fetch"
    /\ checkpoint' = [checkpoint EXCEPT !.last_request_ts = 0]
    /\ cache' = Put(cache, urls[i], fetch_one(src[urls[i]]))
    /\ pc' = "log"
    /\ UNCHANGED imageVars
    /\ UNCHANGED auditVars
    /\ UNCHANGED concVars
    /\ UNCHANGED ioVars
    /\ UNCHANGED << script, enrichDisk, args, i, processed_this_run, result_map,
                    enrichHist, clockVars >>

\* Lines 411-414: the jsonl logs.
EnrichLog ==
    /\ script = "enrich_icr_chinese_name"
    /\ pc = "log"
    /\ LET payload == [index |-> i, status |-> cache[urls[i]].status]
       IN /\ processed_log' = processed_log \cup {payload}
          /\ failed_log' = IF payload.status = "failed"
                             THEN failed_log \cup {payload} ELSE failed_log
    /\ pc' = "save_cp"
    /\ UNCHANGED imageVars
    /\ UNCHANGED auditVars
    /\ UNCHANGED concVars
    /\ UNCHANGED ioVars
    /\ UNCHANGED << script, src, cp_files, cache_file, enrichMem, enrichHist,
                    clockVars >>

\* Lines 416-419, first file of save_checkpoints.
EnrichSaveCheckpoint ==
    /\ script = "enrich_icr_chinese_name"
    /\ pc = "save_cp"
    /\ i' = NextIndex(i)
    /\ processed_this_run' = processed_this_run + 1
    /\ checkpoint' = [checkpoint EXCEPT !.next_index = i']
    /\ cp_files' = Put(cp_files, 1, checkpoint')
    /\ last_saved' = checkpoint'.next_index
    /\ pc' = "save_mirror"
    /\ UNCHANGED imageVars
    /\ UNCHANGED auditVars
    /\ UNCHANGED concVars
    /\ torn' = torn \ {"cp1"}
    /\ UNCHANGED << io_failed, discarded, notified >>
    /\ UNCHANGED << script, src, cache_file, processed_log, failed_log,
                    args, cache, result_map, start_store, start_index, probed,
                    ever_reset, clockVars >>

\* Line 419, second file of save_checkpoints.
EnrichSaveMirror ==
    /\ script = "enrich_icr_chinese_name"
    /\ pc = "save_mirror"
    /\ cp_files' = Put(cp_files, 2, checkpoint)
    /\ last_saved' = checkpoint.next_index
    /\ pc' = "save_cache"
    /\ UNCHANGED imageVars
    /\ UNCHANGED auditVars
    /\ UNCHANGED concVars
    /\ torn' = torn \ {"cp2"}
    /\ UNCHANGED << io_failed, discarded, notified >>
    /\ UNCHANGED << script, src, cache_file, processed_log, failed_log,
                    enrichMem, start_store, start_index, probed, ever_reset,
                    clockVars >>

\* Line 420.
EnrichSaveCache ==
    /\ script = "enrich_icr_chinese_name"
    /\ pc = "save_cache"
    /\ cache_file' = save_url_cache(cache)
    /\ pc' = "loop"
    /\ UNCHANGED imageVars
    /\ UNCHANGED auditVars
    /\ UNCHANGED concVars
    /\ discarded' = IF args.resume THEN discarded ELSE {}
    /\ UNCHANGED notified
    /\ torn' = torn \ {"cache"}
    /\ UNCHANGED io_failed
    /\ UNCHANGED << script, src, cp_files, processed_log, failed_log,
                    enrichMem, enrichHist, clockVars >>

\* The loop is left (line 396 or 398); the cache is the result map (428-455).
EnrichFinish ==
    /\ script = "enrich_icr_chinese_name"
    /\ pc = "loop"
    /\ i >= total \/ LimitReached
    /\ result_map' = cache
    /\ pc' = "done"
    /\ UNCHANGED imageVars
    /\ UNCHANGED auditVars
    /\ UNCHANGED concVars
    /\ UNCHANGED ioVars
    /\ UNCHANGED << script, enrichDisk, args, checkpoint, cache, i,
                    processed_this_run, enrichHist, clockVars >>

\* The process is killed: its memory is gone, the disk stays.
EnrichMemoryLost ==
    /\ pc' = "off"
    /\ args' = NoArgs
    /\ checkpoint' = NewCheckpoint
    /\ cache' = EmptyMap
    /\ i' = 0
    /\ processed_this_run' = 0
    /\ result_map' = EmptyMap
    /\ start_store' = EmptyMap
    /\ start_index' = 0
    /\ probed' = {}
    /\ last_saved' = NoSave
    /\ since_request' = delay
    /\ last_gap' = delay
    /\ UNCHANGED imageVars
    /\ UNCHANGED auditVars
    /\ UNCHANGED concVars
    /\ UNCHANGED << script, enrichDisk, ever_reset >>

EnrichKill ==
    /\ script = "enrich_icr_chinese_name"
    /\ pc \notin Stopped
    /\ EnrichMemoryLost
    /\ UNCHANGED ioVars

\* The process is killed inside dump_json, between the truncation by
\* open("w") and the end of the write: the file is left partial.
EnrichKillInWrite ==
    /\ script = "enrich_icr_chinese_name"
    /\ pc \in DOMAIN WriteAt
    /\ EnrichMemoryLost
    /\ torn' = torn \cup {WriteAt[pc]}
    /\ UNCHANGED << io_failed, discarded, notified >>

\* dump_json raises (disk full, permissions): nothing catches it, the run
\* ends; the file is as before (open failed) or truncated (write failed).
EnrichWriteFails(truncated) ==
    /\ script = "enrich_icr_chinese_name"
    /\ pc \in DOMAIN WriteAt
    /\ pc' = AfterWriteError
    /\ io_failed' = TRUE
    /\ torn' = IF truncated THEN torn \cup {WriteAt[pc]} ELSE torn
    /\ UNCHANGED << discarded, notified >>
    /\ UNCHANGED imageVars
    /\ UNCHANGED auditVars
    /\ UNCHANGED concVars
    /\ UNCHANGED << script, enrichDisk, enrichMem, enrichHist, clockVars >>

\* TickSeconds seconds pass.
EnrichTick ==
    /\ script = "enrich_icr_chinese_name"
    /\ PassTime(TickSeconds)
    /\ checkpoint' = [checkpoint EXCEPT !.last_request_ts = Elapse(@, TickSeconds)]
    /\ UNCHANGED imageVars
    /\ UNCHANGED auditVars
    /\ UNCHANGED concVars
    /\ UNCHANGED ioVars
    /\ UNCHANGED << script, pc, src, cache_file, processed_log, failed_log,
                    args, cache, i, processed_this_run, result_map, enrichHist, last_gap >>

InitEnrichVars ==
    /\ cp_files = EmptyMap
    /\ cache_file = EmptyMap
    /\ processed_log = {}
    /\ failed_log = {}
    /\ args = NoArgs
    /\ checkpoint = NewCheckpoint
    /\ cache = EmptyMap
    /\ i = 0
    /\ processed_this_run = 0
    /\ result_map = EmptyMap
    /\ start_store = EmptyMap
    /\ start_index = 0
    /\ probed = {}
    /\ last_saved = NoSave
    /\ ever_reset = FALSE

\* No concurrent probing in the sequential scripts.
InitNoTasks ==
    /\ waiting = << >>
    /\ in_flight = << >>
    /\ finished = 0
    /\ semaphore = 0
    /\ num_threads = 0
    /\ work_queue = 0
    /\ tasks = << >>
    /\ results_by_name = EmptyMap

\* Every file whole, no write failed.
InitIo ==
    /\ torn = {}
    /\ io_failed = FALSE
    /\ discarded = {}
    /\ notified = "none"

InitCommon ==
    /\ pc = "off"
    /\ since_request = delay
    /\ last_gap = delay
    /\ InitNoTasks
    /\ InitIo


---------------------------------------------------------------------------
\* image_enrich_strict.py

\* backfill_added_entries.json.  A name is its text (id) and whether it carries
\* the OCR artefact normalize_name repairs (apostrophe + capital letter).
entries == [k \in 0 .. NumEntries - 1 |-> [name |-> [id |-> k, cap |-> (k % 2 = 0)]]]
Names == {entries[k].name : k \in 0 .. NumEntries - 1}

normalize_name(name) == [name EXCEPT !.cap = FALSE]

\* dict.fromkeys([norm, name])
QueryVariants(name) ==
    IF normalize_name(name) = name THEN << name >> ELSE << normalize_name(name), name >>

\* What a source cache file holds for a name's key.
CacheStates == {"absent", "null", "url"}
HeadAnswers == {"200", "404", "exception"}
AccsAnswers == {"match", "nomatch", "noimgs", "exception"}
AcsAnswers  == {"img", "noimg", "exception"}
IcrAnswers  == {"photo", "empty", "blocked", "exception"}

NotFoundResult(requests, failed) ==
    [img |-> None, source |-> None, requests |-> requests,
     ret |-> IF failed THEN "error" ELSE "notfound"]

\* `if cached:` (lines 101 and 214): the lookup of the name's keys gave a
\* non-empty URL; an absent key and a key stored with null or "" both fail it.
Truthy(cached) == cached = "url"

\* Source 1.  heads[k] is the answer to the HEAD request for variant k.
try_socal(name, cached, heads) ==
    IF Truthy(cached)
      THEN [img |-> "socal_cache_url", source |-> "socal", requests |-> 0, ret |-> "found"]
      ELSE LET vs == QueryVariants(name)
               hits == {k \in 1 .. Len(vs) : heads[k] = "200"}
               first == CHOOSE k \in hits : \A h \in hits : k <= h
           IN IF hits # {}
                THEN [img |-> "socal_url", source |-> "socal", requests |-> first,
                      ret |-> "found"]
                ELSE NotFoundResult(Len(vs),
                                    \E k \in 1 .. Len(vs) : heads[k] = "exception")

\* Source 2.  posts[k] is what the search answers for variant k.
RECURSIVE AccsFrom(_, _, _, _)
AccsFrom(vs, posts, k, failed) ==
    IF k > Len(vs) THEN NotFoundResult(Len(vs), failed)
    ELSE IF posts[k] = "match"
      THEN [img |-> "accs_url", source |-> "accs", requests |-> k, ret |-> "found"]
    ELSE IF posts[k] = "nomatch"
      THEN [img |-> "AMBIGUOUS", source |-> None, requests |-> k, ret |-> "ambiguous"]
    ELSE AccsFrom(vs, posts, k + 1, failed \/ posts[k] = "exception")

try_accs_search_no_sentinel(name, posts) ==
    LET r == AccsFrom(QueryVariants(name), posts, 1, FALSE)
    IN IF r.img = "AMBIGUOUS" THEN [r EXCEPT !.img = None] ELSE r

try_accs_search(name, posts) == AccsFrom(QueryVariants(name), posts, 1, FALSE)

\* The alt texts of the result images of a search page: the text (id) and
\* whether it is written as the name is or with other case and spaces around.
AltTexts == [id : 0 .. NumEntries, form : {"same", "varied"}]

\* str.lower().strip() of a name or an alt text.
LowerStrip(text) == text.id

\* The pages the search can answer: the request raises, or the page holds
\* zero to two result images (the matches of the regular expression, line 131).
AccsPages ==
    {[raised |-> TRUE, imgs |-> << >>]}
    \cup {[raised |-> FALSE, imgs |-> imgs] :
            imgs \in UNION {[1 .. n -> AltTexts] : n \in 0 .. 2}}

\* Lines 122-147 on one page: what the loop body does with the answer to
\* the search for try_name.
AccsAnswer(try_name, page) ==
    IF page.raised THEN "exception"
    ELSE IF page.imgs = << >> THEN "noimgs"
    ELSE IF \E k \in 1 .. Len(page.imgs) : LowerStrip(page.imgs[k]) = LowerStrip(try_name)
      THEN "match"
      ELSE "nomatch"

try_acs_tagged_socal(name, indexed, page) ==
    IF ~indexed THEN NotFoundResult(0, FALSE)
    ELSE IF page = "img"
      THEN [img |-> "acs_url", source |-> "socal", requests |-> 1, ret |-> "found"]
      ELSE NotFoundResult(1, page = "exception")

\* Source 3.  indexed: the ACS index has the name (normalized or as given).
try_acs(name, indexed, page) ==
    IF ~indexed THEN NotFoundResult(0, FALSE)
    ELSE IF page = "img"
      THEN [img |-> "acs_url", source |-> "acs", requests |-> 1, ret |-> "found"]
      ELSE NotFoundResult(1, page = "exception")

\* Source 4 as one call.  answers[k] is what the API answers for variant k.
RECURSIVE IcrFrom(_, _, _, _)
IcrFrom(vs, answers, k, failed) ==
    IF k > Len(vs) THEN NotFoundResult(Len(vs), failed)
    ELSE IF answers[k] = "photo"
      THEN [img |-> "icr_url", source |-> "icr", requests |-> k, ret |-> "found"]
    ELSE IF answers[k] = "blocked" THEN NotFoundResult(k, TRUE)
    ELSE IcrFrom(vs, answers, k + 1, failed \/ answers[k] = "exception")

try_icr(name, cached, answers) ==
    IF Truthy(cached)
      THEN [img |-> "icr_cache_url", source |-> "icr", requests |-> 0, ret |-> "found"]
      ELSE IcrFrom(QueryVariants(name), answers, 1, FALSE)

\* One call of a cached lookup on its own: args holds the name, what the source
\* cache has for its keys and what the network would answer.
CallTrySocal ==
    /\ script = "try_socal"
    /\ pc = "off"
    /\ search_result' = try_socal(args.name, args.cached, args.answers)
    /\ pc' = "returned"
    /\ UNCHANGED << script, enrichDisk, enrichMem, enrichHist, clockVars, imageVars,
                    all_candidates, full_json, concVars, ioVars >>

CallTryIcr ==
    /\ script = "try_icr"
    /\ pc = "off"
    /\ search_result' = try_icr(args.name, args.cached, args.answers)
    /\ pc' = "returned"
    /\ UNCHANGED << script, enrichDisk, enrichMem, enrichHist, clockVars, imageVars,
                    all_candidates, full_json, concVars, ioVars >>

\* JSON written by save_progress and read back by load_progress.
save_progress(p) == p
load_progress_forgetful(file) == EmptyMap
load_progress(file) == file

NoStats == [socal |-> 0, accs |-> 0, acs |-> 0, icr |-> 0, ambiguous |-> 0, missing |-> 0]
NoVariant == [k |-> 0, failed |-> FALSE]

\* The loop is at an entry that has no saved progress.
AtLiveEntry(at) ==
    /\ script = "image_enrich_strict"
    /\ pc = at
    /\ i < NumEntries
    /\ entries[i].name \notin DOMAIN progress

NoName == [id |-> -1, cap |-> FALSE]
NoReturns == [name |-> NoName, rets |-> << >>]
Returned(name, ret) ==
    returned' = [name |-> name,
                 rets |-> IF returned.name = name THEN Append(returned.rets, ret)
                                                  ELSE << ret >>]
Probed(name, requests) ==
    probed' = IF requests > 0 THEN probed \cup {name} ELSE probed

\* The branches of main that end a unit, up to their save_progress.
\* A found image that is recorded without counting it in stats.
RecordFoundUncounted(name, img, source) ==
    /\ progress' = Put(progress, name, [status |-> "found", image |-> img, source |-> source])
    /\ added' = Append(added, [name |-> name, image |-> img, imageSource |-> source])
    /\ pc' = "save"
    /\ UNCHANGED << progress_file, i, stats >>
    /\ UNCHANGED << skipped_ambiguous, missing >>

RecordFound(name, img, source) ==
    /\ progress' = Put(progress, name, [status |-> "found", image |-> img, source |-> source])
    /\ added' = Append(added, [name |-> name, image |-> img, imageSource |-> source])
    /\ stats' = [stats EXCEPT ![source] = @ + 1]
    /\ pc' = "save"
    /\ UNCHANGED << progress_file, i >>
    /\ UNCHANGED << skipped_ambiguous, missing >>

RecordAmbiguous(name) ==
    /\ progress' = Put(progress, name, [status |-> "ambiguous", reason |-> "ambiguous ACCS match"])
    /\ skipped_ambiguous' = Append(skipped_ambiguous,
                                   [name |-> name, reason |-> "ambiguous ACCS match"])
    /\ stats' = [stats EXCEPT !.ambiguous = @ + 1]
    /\ pc' = "save"
    /\ UNCHANGED << progress_file, i >>
    /\ UNCHANGED << added, missing >>

RecordMissingUnsaved(name) ==
    /\ progress' = Put(progress, name, [status |-> "missing"])
    /\ missing' = Append(missing, [name |-> name])
    /\ stats' = [stats EXCEPT !.missing = @ + 1]
    /\ pc' = "loop"
    /\ i' = i + 1
    /\ UNCHANGED progress_file
    /\ UNCHANGED << added, skipped_ambiguous >>

RecordMissing(name) ==
    /\ progress' = Put(progress, name, [status |-> "missing"])
    /\ missing' = Append(missing, [name |-> name])
    /\ stats' = [stats EXCEPT !.missing = @ + 1]
    /\ pc' = "save"
    /\ UNCHANGED << progress_file, i >>
    /\ UNCHANGED << added, skipped_ambiguous >>

FallThroughAborts(next) ==
    /\ pc' = "aborted"
    /\ UNCHANGED << progress, progress_file, added, skipped_ambiguous, missing, stats, i >>

\* No result from this strategy, for lack of an image or because its requests
\* raised and the strategy swallowed the exception: main goes on to the next.
FallThrough(next) ==
    /\ pc' = next
    /\ UNCHANGED << progress, progress_file, added, skipped_ambiguous, missing, stats, i >>

\* Lines 336-350.
ImageStart ==
    /\ script = "image_enrich_strict"
    /\ pc \in Stopped
    /\ IF "progress" \in torn
         THEN \* json.load raises in load_progress: the run ends at line 343.
              /\ pc' = "crashed"
              /\ UNCHANGED << progress, start_store, added, skipped_ambiguous, missing,
                              stats, last_icr_time, variant, i, probed, returned,
                              clockVars >>
              /\ io_failed' = FALSE
         ELSE /\ progress' = load_progress(progress_file)
              /\ start_store' = progress_file
              /\ added' = << >>
              /\ skipped_ambiguous' = << >>
              /\ missing' = << >>
              /\ stats' = NoStats
              /\ last_icr_time' = ICR_DELAY
              /\ variant' = NoVariant
              /\ i' = 0
              /\ probed' = {}
              /\ returned' = NoReturns
              /\ since_request' = ICR_DELAY
              /\ last_gap' = ICR_DELAY
              /\ io_failed' = FALSE
              /\ pc' = "loop"
    /\ UNCHANGED auditVars
    /\ UNCHANGED concVars
    /\ UNCHANGED << torn, discarded, notified >>
    /\ UNCHANGED << script, enrichDisk, args, checkpoint, cache, processed_this_run,
                    result_map, progress_file, start_index, last_saved, ever_reset >>

\* Lines 352-367: the entry has saved progress.
ImageSkip ==
    /\ script = "image_enrich_strict"
    /\ pc = "loop"
    /\ i < NumEntries
    /\ entries[i].name \in DOMAIN progress
    /\ LET name == entries[i].name
           result == progress[name]
       IN IF result.status = "found"
            THEN /\ added' = Append(added, [name |-> name, image |-> result.image,
                                            imageSource |-> result.source])
                 /\ stats' = [stats EXCEPT ![result.source] = @ + 1]
                 /\ UNCHANGED << skipped_ambiguous, missing >>
          ELSE IF result.status = "ambiguous"
            THEN /\ skipped_ambiguous' = Append(skipped_ambiguous,
                                                [name |-> name, reason |-> result.reason])
                 /\ stats' = [stats EXCEPT !.ambiguous = @ + 1]
                 /\ UNCHANGED << added, missing >>
          ELSE /\ missing' = Append(missing, [name |-> name])
               /\ stats' = [stats EXCEPT !.missing = @ + 1]
               /\ UNCHANGED << added, skipped_ambiguous >>
    /\ i' = i + 1
    /\ returned' = NoReturns
    /\ UNCHANGED auditVars
    /\ UNCHANGED concVars
    /\ UNCHANGED ioVars
    /\ UNCHANGED << script, pc, enrichDisk, args, checkpoint, cache,
                    processed_this_run, result_map, progress_file, progress,
                    last_icr_time, variant, enrichHist, clockVars >>

\* Lines 371-379.
ImageSocal(cached, heads) ==
    /\ AtLiveEntry("loop")
    /\ LET name == entries[i].name
           r == try_socal(name, cached, heads)
       IN /\ Returned(name, r.ret)
          /\ Probed(name, r.requests)
          /\ IF r.img # None THEN RecordFound(name, r.img, r.source)
                             ELSE FallThrough("accs")
    /\ UNCHANGED auditVars
    /\ UNCHANGED concVars
    /\ UNCHANGED ioVars
    /\ UNCHANGED << script, enrichDisk, args, checkpoint, cache,
                    processed_this_run, result_map, last_icr_time, variant,
                    start_store, start_index, last_saved, ever_reset, clockVars >>

\* Lines 381-396.
ImageAccs(posts) ==
    /\ AtLiveEntry("accs")
    /\ LET name == entries[i].name
           r == try_accs_search(name, posts)
       IN /\ Returned(name, r.ret)
          /\ Probed(name, r.requests)
          /\ IF r.img = "AMBIGUOUS" THEN RecordAmbiguous(name)
             ELSE IF r.img # None THEN RecordFound(name, r.img, r.source)
             ELSE FallThrough("acs")
    /\ UNCHANGED auditVars
    /\ UNCHANGED concVars
    /\ UNCHANGED ioVars
    /\ UNCHANGED << script, enrichDisk, args, checkpoint, cache,
                    processed_this_run, result_map, last_icr_time, variant,
                    start_store, start_index, last_saved, ever_reset, clockVars >>

\* Lines 398-406.
ImageAcs(indexed, page) ==
    /\ AtLiveEntry("acs")
    /\ LET name == entries[i].name
           r == try_acs(name, indexed, page)
       IN /\ Returned(name, r.ret)
          /\ Probed(name, r.requests)
          /\ IF r.img # None THEN RecordFound(name, r.img, r.source)
                             ELSE FallThrough("icr")
    /\ UNCHANGED auditVars
    /\ UNCHANGED concVars
    /\ UNCHANGED ioVars
    /\ UNCHANGED << script, enrichDisk, args, checkpoint, cache,
                    processed_this_run, result_map, last_icr_time, variant,
                    start_store, start_index, last_saved, ever_reset, clockVars >>

\* A request to the ICR API leaves (lines 222-227).
IcrDispatch(slept) ==
    /\ last_icr_time' = 0
    /\ last_gap' = ElapseCap(since_request, slept, ICR_DELAY)
    /\ since_request' = 0

\* The seconds try_icr sleeps before its requests (lines 216-218).
IcrSleep(elapsed) == IF elapsed < ICR_DELAY THEN ICR_DELAY - elapsed ELSE 0

\* Lines 408-409 and try_icr up to its first request (204-227).
ImageIcrBegin(cached) ==
    /\ AtLiveEntry("icr")
    /\ LET name == entries[i].name
       IN IF Truthy(cached)
            THEN /\ Returned(name, "found")
                 /\ RecordFound(name, "icr_cache_url", "icr")
                 /\ UNCHANGED << probed, last_icr_time, variant, clockVars >>
            ELSE /\ IcrDispatch(IcrSleep(last_icr_time))
                 /\ variant' = [k |-> 1, failed |-> FALSE]
                 /\ probed' = probed \cup {name}
                 /\ pc' = "icr_wait"
                 /\ UNCHANGED << returned, progress, progress_file, added,
                                 skipped_ambiguous, missing, stats, i >>
    /\ UNCHANGED auditVars
    /\ UNCHANGED concVars
    /\ UNCHANGED ioVars
    /\ UNCHANGED << script, enrichDisk, args, checkpoint, cache,
                    processed_this_run, result_map,
                    start_store, start_index, last_saved, ever_reset >>

\* The answer to the request in flight (lines 227-242), the next variant's
\* request if there is one, and lines 410-423 of main.
ImageIcrAnswer(answer) ==
    /\ AtLiveEntry("icr_wait")
    /\ LET name == entries[i].name
           vs == QueryVariants(name)
           failed == variant.failed \/ answer = "exception"
       IN IF answer = "photo"
            THEN /\ Returned(name, "found")
                 /\ RecordFound(name, "icr_url", "icr")
                 /\ variant' = NoVariant
                 /\ UNCHANGED << last_icr_time, clockVars >>
          ELSE IF answer = "blocked"
            THEN /\ Returned(name, "error")
                 /\ RecordMissing(name)
                 /\ variant' = NoVariant
                 /\ UNCHANGED << last_icr_time, clockVars >>
          ELSE IF variant.k < Len(vs)
            THEN /\ IcrDispatch(0)
                 /\ variant' = [k |-> variant.k + 1, failed |-> failed]
                 /\ UNCHANGED << pc, returned, progress, progress_file, added,
                                 skipped_ambiguous, missing, stats, i >>
          ELSE /\ Returned(name, IF failed THEN "error" ELSE "notfound")
               /\ RecordMissing(name)
               /\ variant' = NoVariant
               /\ UNCHANGED << last_icr_time, clockVars >>
    /\ UNCHANGED auditVars
    /\ UNCHANGED concVars
    /\ UNCHANGED ioVars
    /\ UNCHANGED << script, enrichDisk, args, checkpoint, cache,
                    processed_this_run, result_map,
                    start_store, start_index, probed, last_saved, ever_reset >>

\* save_progress(progress) and continue, at the end of each branch.
ImageSave ==
    /\ script = "image_enrich_strict"
    /\ pc = "save"
    /\ progress_file' = save_progress(progress)
    /\ torn' = torn \ {"progress"}
    /\ i' = i + 1
    /\ pc' = "loop"
    /\ UNCHANGED auditVars
    /\ UNCHANGED concVars
    /\ UNCHANGED << script, enrichDisk, args, checkpoint, cache, processed_this_run,
                    result_map, progress, added, skipped_ambiguous, missing, stats,
                    last_icr_time, variant, returned, enrichHist, clockVars,
                    io_failed, discarded, notified >>

\* Lines 425-459: the loop is over, the output files are written.
ImageFinish ==
    /\ script = "image_enrich_strict"
    /\ pc = "loop"
    /\ i >= NumEntries
    /\ pc' = "done"
    /\ UNCHANGED auditVars
    /\ UNCHANGED concVars
    /\ UNCHANGED ioVars
    /\ UNCHANGED << script, enrichDisk, enrichMem, imageVars, enrichHist, clockVars >>

\* The process is killed: its memory is gone, the disk stays.
ImageMemoryLost ==
    /\ pc' = "off"
    /\ progress' = EmptyMap
    /\ added' = << >>
    /\ skipped_ambiguous' = << >>
    /\ missing' = << >>
    /\ stats' = NoStats
    /\ last_icr_time' = ICR_DELAY
    /\ variant' = NoVariant
    /\ i' = 0
    /\ returned' = NoReturns
    /\ probed' = {}
    /\ start_store' = EmptyMap
    /\ since_request' = ICR_DELAY
    /\ last_gap' = ICR_DELAY
    /\ UNCHANGED auditVars
    /\ UNCHANGED concVars
    /\ UNCHANGED << script, enrichDisk, args, checkpoint, cache,
                    processed_this_run, result_map, progress_file,
                    start_index, last_saved, ever_reset >>

ImageKill ==
    /\ script = "image_enrich_strict"
    /\ pc \notin Stopped
    /\ ImageMemoryLost
    /\ UNCHANGED ioVars

\* The process is killed inside save_progress, between the truncation by
\* open("w") and the end of json.dump: the progress file is left partial.
ImageKillInSave ==
    /\ script = "image_enrich_strict"
    /\ pc = "save"
    /\ ImageMemoryLost
    /\ torn' = torn \cup {"progress"}
    /\ UNCHANGED << io_failed, discarded, notified >>

\* save_progress raises: nothing catches it, the run ends.
ImageSaveFails(truncated) ==
    /\ script = "image_enrich_strict"
    /\ pc = "save"
    /\ pc' = AfterWriteError
    /\ io_failed' = TRUE
    /\ torn' = IF truncated THEN torn \cup {"progress"} ELSE torn
    /\ UNCHANGED << discarded, notified >>
    /\ UNCHANGED auditVars
    /\ UNCHANGED concVars
    /\ UNCHANGED << script, enrichDisk, enrichMem, imageVars, enrichHist, clockVars >>

\* TickSeconds seconds pass.
ImageTick ==
    /\ script = "image_enrich_strict"
    /\ last_icr_time' = ElapseCap(last_icr_time, TickSeconds, ICR_DELAY)
    /\ since_request' = ElapseCap(since_request, TickSeconds, ICR_DELAY)
    /\ UNCHANGED auditVars
    /\ UNCHANGED concVars
    /\ UNCHANGED ioVars
    /\ UNCHANGED << script, pc, enrichDisk, enrichMem, progress_file, progress,
                    added, skipped_ambiguous, missing, stats, variant, returned,
                    enrichHist, last_gap >>

InitImageVars ==
    /\ progress_file = EmptyMap
    /\ progress = EmptyMap
    /\ added = << >>
    /\ skipped_ambiguous = << >>
    /\ missing = << >>
    /\ stats = NoStats
    /\ last_icr_time = ICR_DELAY
    /\ variant = NoVariant
    /\ returned = NoReturns


---------------------------------------------------------------------------
\* icr_match_audit.py

NAMES == [k \in 0 .. NumNames - 1 |-> k]

\* The de-duplicated query variants of a name: the name as given and, for a
\* name with separators (the odd ones here), its plain form.
query_variants(name) ==
    IF name % 2 = 1 THEN << [name |-> name, form |-> "given"],
                            [name |-> name, form |-> "plain"] >>
                    ELSE << [name |-> name, form |-> "given"] >>

\* DETAIL_BASE + quote(accepted) if accepted else "": the URL is named by the
\* accepted name it quotes.
DetailUrl(accepted) == IF accepted # "" THEN accepted ELSE ""

\* An item of the API answer with its score: round(max(s1, s2), 4) of the
\* item's ScientificName against the input name (lines 156-162).
Item(sci, accepted, score) ==
    [scientific_name |-> sci, accepted_name |-> accepted,
     detail_url |-> DetailUrl(accepted), score |-> score]

\* What the API answers in the pipeline model.
ItemPool == { Item("sci1", "latin1", 9700), Item("sci2", "latin2", 9300),
              Item("sci3", "", 9000), Item("sci4", "latin4", 4000) }
ItemLists == {<< >>} \cup {<< x >> : x \in ItemPool}
                     \cup {c \in {<< x, y >> : x \in ItemPool, y \in ItemPool} : c[1] # c[2]}
ApiAnswers == {[ok |-> FALSE, data |-> << >>]} \cup {[ok |-> TRUE, data |-> d] : d \in ItemLists}

\* Lines 126-138: add the items whose (ScientificName, AcceptedName) is new.
RECURSIVE AddCandidates(_, _)
AddCandidates(all, raw) ==
    IF raw = << >> THEN all
    ELSE LET item == Head(raw)
             known == \E k \in 1 .. Len(all) :
                          /\ all[k].scientific_name = item.scientific_name
                          /\ all[k].accepted_name = item.accepted_name
         IN AddCandidates(IF known THEN all ELSE Append(all, item), Tail(raw))

\* scored.sort(key=score, reverse=True): stable, descending.
InsertByScore(sorted, c) ==
    LET k == Cardinality({j \in 1 .. Len(sorted) : sorted[j].score >= c.score})
    IN SubSeq(sorted, 1, k) \o << c >> \o SubSeq(sorted, k + 1, Len(sorted))

RECURSIVE SortByScore(_)
SortByScore(cands) ==
    IF cands = << >> THEN << >>
    ELSE InsertByScore(SortByScore(SubSeq(cands, 1, Len(cands) - 1)), cands[Len(cands)])

ClassifyStrict(scored) ==
    LET top == scored[1]
    IN IF top.score > EXACT_SCORE THEN "exact"
       ELSE IF top.score > FUZZY_SCORE
         THEN IF Len(scored) > 1 /\ scored[2].score > top.score - AMBIGUOUS_MARGIN
                THEN "ambiguous" ELSE "fuzzy_match"
         ELSE "no_match"

\* Lines 167-175 with the margin test of line 170 turned round.
ClassifyMarginReversed(scored) ==
    LET top == scored[1]
    IN IF top.score >= EXACT_SCORE THEN "exact"
       ELSE IF top.score >= FUZZY_SCORE
         THEN IF Len(scored) > 1 /\ scored[2].score <= top.score - AMBIGUOUS_MARGIN
                THEN "ambiguous" ELSE "fuzzy_match"
         ELSE "no_match"

\* Lines 167-175.
Classify(scored) ==
    LET top == scored[1]
    IN IF top.score >= EXACT_SCORE THEN "exact"
       ELSE IF top.score >= FUZZY_SCORE
         THEN IF Len(scored) > 1 /\ scored[2].score >= top.score - AMBIGUOUS_MARGIN
                THEN "ambiguous" ELSE "fuzzy_match"
         ELSE "no_match"

\* The statuses whose result carries a best_match (line 186).
BestMatchStatuses == {"exact", "fuzzy_match", "ambiguous"}

\* Lines 145-189.  best_match is << >> for None, << match >> otherwise.
MatchResult(name, all) ==
    IF all = << >>
      THEN [input_name |-> name, status |-> "no_match", candidates |-> << >>,
            best_match |-> << >>, confidence |-> 0]
      ELSE LET scored == SortByScore(all)
               top == scored[1]
               status == Classify(scored)
           IN [input_name |-> name, status |-> status,
               candidates |-> SubSeq(scored, 1, Min(10, Len(scored))),
               best_match |-> IF status \in BestMatchStatuses
                                THEN << [scientific_name |-> top.scientific_name,
                                         accepted_name |-> top.accepted_name,
                                         detail_url |-> top.detail_url] >>
                                ELSE << >>,
               confidence |-> top.score]

\* Lines 115-124.
ErrorResult(name) ==
    [input_name |-> name, status |-> "error", candidates |-> << >>,
     best_match |-> << >>, confidence |-> 0]

NoResult == [input_name |-> -1, status |-> "none", candidates |-> << >>,
             best_match |-> << >>, confidence |-> 0]

\* Lines 240-246: the lines of icr_match_audit_links.txt for a result list.
RECURSIVE LinkLines(_)
LinkLines(results) ==
    IF results = << >> THEN << >>
    ELSE LET r == Head(results)
             rest == LinkLines(Tail(results))
         IN IF r.best_match # << >> /\ r.best_match[1].detail_url # ""
              THEN << [input_name |-> r.input_name,
                       detail_url |-> r.best_match[1].detail_url] >> \o rest
              ELSE rest

\* The comprehension of lines 274 and 287 building its list back to front.
RECURSIVE OrderedFromReversed(_, _)
OrderedFromReversed(completed, k) ==
    IF k >= NumNames THEN << >>
    ELSE OrderedFromReversed(completed, k + 1)
         \o (IF NAMES[k] \in DOMAIN completed THEN << completed[NAMES[k]] >> ELSE << >>)

\* [completed[n] for n in NAMES if n in completed]
RECURSIVE OrderedFrom(_, _)
OrderedFrom(completed, k) ==
    IF k >= NumNames THEN << >>
    ELSE (IF NAMES[k] \in DOMAIN completed THEN << completed[NAMES[k]] >> ELSE << >>)
         \o OrderedFrom(completed, k + 1)
Ordered(completed) == OrderedFrom(completed, 0)

\* load_progress: the completed map of the progress file, empty without a file.
load_audit_progress(file) == file

auditFrame0 == << script, enrichDisk, args, checkpoint, cache, processed_this_run,
                 result_map, added, skipped_ambiguous, missing, stats, last_icr_time,
                 returned, start_index, last_saved, ever_reset, concVars >>

auditFrame == << auditFrame0, ioVars >>

\* Lines 252-258.
AuditStart ==
    /\ script = "icr_match_audit"
    /\ pc \in Stopped
    /\ IF "progress" \in torn
         THEN \* json.loads raises in load_progress: the run ends at line 252.
              /\ pc' = "crashed"
              /\ UNCHANGED << progress, start_store, i, all_candidates, search_result,
                              variant, probed, clockVars >>
              /\ io_failed' = FALSE
         ELSE /\ progress' = load_audit_progress(progress_file)
              /\ start_store' = progress_file
              /\ i' = 0
              /\ all_candidates' = << >>
              /\ search_result' = NoResult
              /\ variant' = NoVariant
              /\ probed' = {}
              /\ since_request' = RATE_LIMIT_SECONDS
              /\ last_gap' = RATE_LIMIT_SECONDS
              /\ io_failed' = FALSE
              /\ pc' = "loop"
    /\ notified' = "none"
    /\ UNCHANGED << progress_file, full_json, torn, discarded >>
    /\ UNCHANGED auditFrame0

\* Lines 260-262.
AuditSkip ==
    /\ script = "icr_match_audit"
    /\ pc = "loop"
    /\ i < NumNames
    /\ NAMES[i] \in DOMAIN progress
    /\ i' = i + 1
    /\ UNCHANGED << pc, progress, progress_file, variant, auditVars, start_store, probed,
                    clockVars >>
    /\ UNCHANGED auditFrame

\* One pass of the variant loop of search_icr (lines 111-142) and, after the
\* last variant, the matching logic (145-189): the request for the next
\* variant leaves, the answer arrives, and search_icr sleeps if another
\* variant follows.
AuditQuery(answer) ==
    /\ script = "icr_match_audit"
    /\ \/ pc = "loop" /\ i < NumNames /\ NAMES[i] \notin DOMAIN progress
       \/ pc = "query"
    /\ LET name == NAMES[i]
           vs == query_variants(name)
           k == IF pc = "loop" THEN 1 ELSE variant.k + 1
           before == IF pc = "loop" THEN << >> ELSE all_candidates
           cands == AddCandidates(before, answer.data)
       IN /\ last_gap' = since_request
          /\ probed' = probed \cup {name}
          /\ IF ~answer.ok
               THEN /\ search_result' = ErrorResult(name)
                    /\ all_candidates' = << >>
                    /\ variant' = NoVariant
                    /\ since_request' = 0
                    /\ pc' = "save"
             ELSE IF k < Len(vs)
               THEN /\ all_candidates' = cands
                    /\ variant' = [k |-> k, failed |-> FALSE]
                    /\ since_request' = ElapseCap(0, RATE_LIMIT_SECONDS, RATE_LIMIT_SECONDS)
                    /\ pc' = "query"
                    /\ UNCHANGED search_result
             ELSE /\ search_result' = MatchResult(name, cands)
                  /\ all_candidates' = << >>
                  /\ variant' = NoVariant
                  /\ since_request' = 0
                  /\ pc' = "save"
    /\ UNCHANGED << i, progress, progress_file, full_json, start_store >>
    /\ UNCHANGED auditFrame

\* Lines 266-271.
AuditSave ==
    /\ script = "icr_match_audit"
    /\ pc = "save"
    /\ progress' = Put(progress, NAMES[i], search_result)
    /\ progress_file' = progress'
    /\ torn' = torn \ {"progress"}
    /\ pc' = "write"
    /\ UNCHANGED << i, variant, auditVars, start_store, probed, clockVars,
                    io_failed, discarded, notified >>
    /\ UNCHANGED auditFrame0

\* Lines 273-284: the outputs, then the sleep before the next name.
AuditWrite(notify) ==
    /\ script = "icr_match_audit"
    /\ pc = "write"
    /\ full_json' = Ordered(progress)
    /\ LET due == Cardinality(probed) % EVENT_EVERY = 0
       IN /\ notified' = IF due THEN notify ELSE notified
          /\ IF due /\ send_event(notify) = "raised"
               THEN /\ pc' = "crashed"
                    /\ UNCHANGED << i, since_request >>
               ELSE /\ since_request' =
                         IF i < NumNames - 1
                           THEN ElapseCap(since_request, RATE_LIMIT_SECONDS, RATE_LIMIT_SECONDS)
                           ELSE since_request
                    /\ i' = i + 1
                    /\ pc' = "loop"
    /\ UNCHANGED << progress, progress_file, variant, all_candidates, search_result,
                    start_store, probed, last_gap >>
    /\ UNCHANGED << torn, io_failed, discarded >>
    /\ UNCHANGED auditFrame0

\* Lines 286-297.
AuditFinish(notify) ==
    /\ script = "icr_match_audit"
    /\ pc = "loop"
    /\ i >= NumNames
    /\ full_json' = Ordered(progress)
    /\ progress_file' = progress
    /\ torn' = torn \ {"progress"}
    /\ notified' = notify
    /\ pc' = IF send_event(notify) = "raised" THEN "crashed" ELSE "done"
    /\ UNCHANGED << i, progress, variant, all_candidates, search_result, start_store,
                    probed, clockVars, io_failed, discarded >>
    /\ UNCHANGED auditFrame0

\* The process is killed: its memory is gone, the disk stays.
AuditMemoryLost ==
    /\ pc' = "off"
    /\ progress' = EmptyMap
    /\ i' = 0
    /\ all_candidates' = << >>
    /\ search_result' = NoResult
    /\ variant' = NoVariant
    /\ start_store' = EmptyMap
    /\ probed' = {}
    /\ since_request' = RATE_LIMIT_SECONDS
    /\ last_gap' = RATE_LIMIT_SECONDS
    /\ UNCHANGED << progress_file, full_json >>
    /\ UNCHANGED auditFrame0

AuditKill ==
    /\ script = "icr_match_audit"
    /\ pc \notin Stopped
    /\ AuditMemoryLost
    /\ UNCHANGED ioVars

\* The process is killed inside save_progress, while write_text has
\* truncated the progress file and not yet written all of it.
AuditKillInSave ==
    /\ script = "icr_match_audit"
    /\ pc = "save"
    /\ AuditMemoryLost
    /\ torn' = torn \cup {"progress"}
    /\ UNCHANGED << io_failed, discarded, notified >>

\* save_progress raises: nothing catches it, the run ends.
AuditSaveFails(truncated) ==
    /\ script = "icr_match_audit"
    /\ pc = "save"
    /\ pc' = AfterWriteError
    /\ io_failed' = TRUE
    /\ torn' = IF truncated THEN torn \cup {"progress"} ELSE torn
    /\ UNCHANGED << i, progress, progress_file, variant, auditVars, start_store,
                    probed, clockVars, discarded, notified >>
    /\ UNCHANGED auditFrame0

\* TickSeconds seconds pass.
AuditTick ==
    /\ script = "icr_match_audit"
    /\ since_request' = ElapseCap(since_request, TickSeconds, RATE_LIMIT_SECONDS)
    /\ UNCHANGED << pc, i, progress, progress_file, variant, auditVars, start_store,
                    probed, last_gap >>
    /\ UNCHANGED auditFrame

\* The matching logic of search_icr alone, on a candidate list, followed by
\* write_outputs on its result.
ScoreMatch ==
    /\ script = "search_icr"
    /\ pc = "off"
    /\ search_result' = MatchResult(0, all_candidates)
    /\ pc' = "matched"
    /\ UNCHANGED << i, progress, progress_file, variant, all_candidates, full_json,
                    start_store, probed, clockVars >>
    /\ UNCHANGED auditFrame

ScoreWrite ==
    /\ script = "search_icr"
    /\ pc = "matched"
    /\ full_json' = << search_result >>
    /\ pc' = "done"
    /\ UNCHANGED << i, progress, progress_file, variant, all_candidates, search_result,
                    start_store, probed, clockVars >>
    /\ UNCHANGED auditFrame

InitAuditVars ==
    /\ all_candidates = << >>
    /\ search_result = NoResult
    /\ full_json = << >>

---------------------------------------------------------------------------
\* acs_audit.py (run_audit, run_recovery) and acs_backfill_audit.py
\* (batch_validate): the tasks are interchangeable, so the state counts them
\* by position.

RECURSIVE Sum(_)
Sum(seq) == IF seq = << >> THEN 0 ELSE Head(seq) + Sum(Tail(seq))

\* The probes (check_url / validate_url calls) executing now.
Executing == Sum(in_flight)

\* asyncio.Semaphore(CONCURRENCY)
Semaphore(value) == value

AcquireAlways(value) == TRUE

\* "async with semaphore" enters when the value is positive.
CanAcquire(value) == value > 0

\* ThreadPoolExecutor(max_workers=workers) starts a thread for a submitted
\* item when no thread has reported itself idle and fewer than max_workers
\* exist.
StartsThread(threads, idle, max_workers) ==
    ~idle /\ threads < max_workers

Counts(n, first) == [k \in 1 .. n |-> IF k = 1 THEN first ELSE 0]

otherVars0 == << src, cp_files, cache_file, processed_log, failed_log, args, checkpoint,
                cache, i, processed_this_run, result_map, progress_file, progress, added,
                skipped_ambiguous, missing, stats, last_icr_time, variant, all_candidates,
                search_result, full_json, start_store, start_index, probed, returned,
                last_saved, ever_reset, since_request, last_gap >>
otherVars == << otherVars0, ioVars >>

\* run_audit, check_entry: async with semaphore, check_url begins.
CheckEntryEnter ==
    /\ script = "acs_audit.run_audit"
    /\ waiting[1] > 0
    /\ CanAcquire(semaphore)
    /\ semaphore' = semaphore - 1
    /\ waiting' = [waiting EXCEPT ![1] = @ - 1]
    /\ in_flight' = [in_flight EXCEPT ![1] = @ + 1]
    /\ UNCHANGED << script, pc, finished, num_threads, work_queue, otherVars >>
    /\ UNCHANGED gatherVars

\* check_url returns, the semaphore is released, the result is recorded.
\* notify: how the progress event ends when check_entry sends one (lines
\* 119-123: at every PROGRESS_INTERVAL-th entry and at the last one, if
\* EVENT_INTERVAL seconds have passed), "none" when it sends none.
CheckEntryExit(notify) ==
    /\ script = "acs_audit.run_audit"
    /\ pc = "gather"
    /\ in_flight[1] > 0
    /\ semaphore' = semaphore + 1
    /\ in_flight' = [in_flight EXCEPT ![1] = @ - 1]
    /\ finished' = finished + 1
    /\ notify # "none" => (finished' % PROGRESS_INTERVAL = 0 \/ finished' = NumProbes)
    /\ notified' = IF notify = "none" THEN notified ELSE notify
    /\ pc' = IF notify # "none" /\ send_progress_event(notify) = "raised" THEN "crashed"
             ELSE IF finished' = NumProbes THEN "done" ELSE pc
    /\ UNCHANGED << script, waiting, num_threads, work_queue, torn, io_failed, discarded >>
    /\ UNCHANGED gatherVars
    /\ UNCHANGED otherVars0

\* run_audit after the gather (line 129): the final progress event.
RunAuditReturn(notify) ==
    /\ script \in {"acs_audit.run_audit", "acs_audit.check_entry"}
    /\ pc = "done"
    /\ notified' = notify
    /\ pc' = IF send_progress_event(notify) = "raised" THEN "crashed" ELSE "returned"
    /\ UNCHANGED << script, concVars, torn, io_failed, discarded >>
    /\ UNCHANGED otherVars0

\* attempt_recovery: deterministic_url = original_url, strategy 1 is skipped.
RecoverySkip(more) ==
    /\ script = "acs_audit.run_recovery"
    /\ waiting[1] > 0
    /\ IF more /\ MaxAttempts > 1
         THEN /\ waiting' = [waiting EXCEPT ![1] = @ - 1, ![2] = @ + 1]
              /\ UNCHANGED << finished, pc >>
         ELSE /\ waiting' = [waiting EXCEPT ![1] = @ - 1]
              /\ finished' = finished + 1
              /\ pc' = IF finished' = NumProbes THEN "done" ELSE pc
    /\ UNCHANGED << script, in_flight, semaphore, num_threads, work_queue, otherVars >>
    /\ UNCHANGED gatherVars

\* attempt_recovery: the k-th check_url of a task begins under the semaphore.
RecoveryEnter(k) ==
    /\ script = "acs_audit.run_recovery"
    /\ waiting[k] > 0
    /\ CanAcquire(semaphore)
    /\ semaphore' = semaphore - 1
    /\ waiting' = [waiting EXCEPT ![k] = @ - 1]
    /\ in_flight' = [in_flight EXCEPT ![k] = @ + 1]
    /\ UNCHANGED << script, pc, finished, num_threads, work_queue, otherVars >>
    /\ UNCHANGED gatherVars

\* The k-th check_url returns: the task returns if the URL is valid or no
\* variation is left, and goes on to the next variation otherwise.
RecoveryExit(k, valid, more) ==
    /\ script = "acs_audit.run_recovery"
    /\ in_flight[k] > 0
    /\ semaphore' = semaphore + 1
    /\ in_flight' = [in_flight EXCEPT ![k] = @ - 1]
    /\ IF ~valid /\ more /\ k < MaxAttempts
         THEN /\ waiting' = [waiting EXCEPT ![k + 1] = @ + 1]
              /\ UNCHANGED << finished, pc >>
         ELSE /\ finished' = finished + 1
              /\ pc' = IF finished' = NumProbes THEN "done" ELSE pc
              /\ UNCHANGED waiting
    /\ UNCHANGED << script, num_threads, work_queue, otherVars >>
    /\ UNCHANGED gatherVars

\* batch_validate: pool.submit(validate_url, u) for the next url.
PoolSubmit(idle) ==
    /\ script = "acs_backfill_audit.batch_validate"
    /\ waiting[1] > 0
    /\ idle => num_threads - Executing > 0
    /\ waiting' = [waiting EXCEPT ![1] = @ - 1]
    /\ work_queue' = work_queue + 1
    /\ num_threads' = IF StartsThread(num_threads, idle, workers)
                        THEN num_threads + 1 ELSE num_threads
    /\ UNCHANGED << script, pc, in_flight, finished, semaphore, otherVars >>
    /\ UNCHANGED gatherVars

\* An idle worker thread takes a work item and calls validate_url.
WorkerTake ==
    /\ script = "acs_backfill_audit.batch_validate"
    /\ work_queue > 0
    /\ num_threads - Executing > 0
    /\ work_queue' = work_queue - 1
    /\ in_flight' = [in_flight EXCEPT ![1] = @ + 1]
    /\ UNCHANGED << script, pc, waiting, finished, semaphore, num_threads, otherVars >>
    /\ UNCHANGED gatherVars

\* validate_url returns; as_completed hands the future to the loop.
WorkerDone ==
    /\ script = "acs_backfill_audit.batch_validate"
    /\ in_flight[1] > 0
    /\ in_flight' = [in_flight EXCEPT ![1] = @ - 1]
    /\ finished' = finished + 1
    /\ pc' = IF finished' = NumProbes THEN "done" ELSE pc
    /\ UNCHANGED << script, waiting, semaphore, num_threads, work_queue, otherVars >>
    /\ UNCHANGED gatherVars

---------------------------------------------------------------------------
\* load_best_checkpoint of scripts/enrich_icr_chinese_name.py on mirror files
\* in any condition.  A mirror is absent, unreadable (load_json raises) or
\* holds a checkpoint with its next_index and updated_at.

\* updated_at is now_iso(), an ISO string in UTC, here the instant it names;
\* the key compares the strings, which order as the instants do.
UpdatedAts == {1, 2}
MirrorContents ==
    {[state |-> "absent", next_index |-> 0, updated_at |-> 0],
     [state |-> "unreadable", next_index |-> 0, updated_at |-> 0]}
    \cup {[state |-> "ok", next_index |-> n, updated_at |-> t] :
            n \in 0 .. total, t \in UpdatedAts}

\* Lines 187-196: the paths whose file exists and loads, in path order.
RECURSIVE ReadableFrom(_, _)
ReadableFrom(mirrors, p) ==
    IF p > Len(mirrors) THEN << >>
    ELSE (IF mirrors[p].state = "ok" THEN << p >> ELSE << >>)
         \o ReadableFrom(mirrors, p + 1)
Readable(mirrors) == ReadableFrom(mirrors, 1)

KeyLessIndexOnly(a, b) == a.next_index < b.next_index

\* Lines 202-206: the key (next_index, updated_at), compared as tuples.
KeyLess(a, b) ==
    \/ a.next_index < b.next_index
    \/ a.next_index = b.next_index /\ a.updated_at < b.updated_at

\* max(candidates, key=key): the first candidate no other exceeds.
MaxByKey(mirrors, cands) ==
    LET best == {k \in 1 .. Len(cands) :
                    \A j \in 1 .. Len(cands) : ~KeyLess(mirrors[cands[k]], mirrors[cands[j]])}
    IN cands[CHOOSE k \in best : \A j \in best : k <= j]

\* Lines 183-208.  path 0 is the new checkpoint of load_checkpoint(reset=True).
load_best_of_mirrors(mirrors, reset) ==
    IF reset \/ Readable(mirrors) = << >>
      THEN [path |-> 0, next_index |-> 0]
      ELSE LET p == MaxByKey(mirrors, Readable(mirrors))
           IN [path |-> p, next_index |-> mirrors[p].next_index]

\* Line 369.
LoadMirrors ==
    /\ script = "load_best_checkpoint"
    /\ pc = "off"
    /\ checkpoint' = load_best_of_mirrors(cp_files, ~args.resume)
    /\ pc' = "loaded"
    /\ UNCHANGED << script, src, cp_files, cache_file, processed_log, failed_log, args,
                    cache, i, processed_this_run, result_map, enrichHist, clockVars,
                    imageVars, auditVars, concVars, ioVars >>

---------------------------------------------------------------------------
\* Specifications: one per script.

InitEnrich ==
    /\ script = "enrich_icr_chinese_name"
    /\ src \in [0 .. total - 1 -> Responses]
    /\ InitCommon
    /\ InitEnrichVars
    /\ InitImageVars
    /\ InitAuditVars

\* The steps of a run that is left alone.
EnrichRun ==
    \/ \E resume \in BOOLEAN, max_urls \in MaxUrlsChoices : EnrichStart(resume, max_urls)
    \/ EnrichStartMirror
    \/ EnrichCacheHit
    \/ EnrichDispatch
    \/ EnrichFetched
    \/ EnrichLog
    \/ EnrichSaveCheckpoint
    \/ EnrichSaveMirror
    \/ EnrichSaveCache
    \/ EnrichFinish

NextEnrich ==
    \/ EnrichRun
    \/ EnrichKill
    \/ EnrichTick

SpecEnrich == InitEnrich /\ [][NextEnrich]_vars

\* The disk an earlier run left behind when camellias.json then held one more
\* ICR URL than now: both checkpoint mirrors at the n units that run had
\* processed, and the url cache with their outcomes.
InitEnrichShrunk ==
    /\ script = "enrich_icr_chinese_name"
    /\ src \in [0 .. total - 1 -> Responses]
    /\ InitCommon
    /\ InitImageVars
    /\ InitAuditVars
    /\ \E n \in 1 .. total + 1, gone \in Responses :
          /\ cp_files = [p \in {1, 2} |-> [next_index |-> n, last_request_ts |-> delay]]
          /\ cache_file = [u \in 0 .. n - 1 |->
                             fetch_one(IF u < total THEN src[u] ELSE gone)]
    /\ processed_log = {}
    /\ failed_log = {}
    /\ args = NoArgs
    /\ checkpoint = NewCheckpoint
    /\ cache = EmptyMap
    /\ i = 0
    /\ processed_this_run = 0
    /\ result_map = EmptyMap
    /\ start_store = EmptyMap
    /\ start_index = 0
    /\ probed = {}
    /\ last_saved = NoSave
    /\ ever_reset = FALSE

SpecEnrichShrunk == InitEnrichShrunk /\ [][NextEnrich]_vars

InitImage ==
    /\ script = "image_enrich_strict"
    /\ src = EmptyMap
    /\ InitCommon
    /\ InitEnrichVars
    /\ InitImageVars
    /\ InitAuditVars
    /\ InitAuditVars

ImageRun ==
    \/ ImageStart
    \/ ImageSkip
    \/ \E cached \in CacheStates, heads \in [1 .. 2 -> HeadAnswers] : ImageSocal(cached, heads)
    \/ \E posts \in [1 .. 2 -> AccsAnswers] : ImageAccs(posts)
    \/ \E indexed \in BOOLEAN, page \in AcsAnswers : ImageAcs(indexed, page)
    \/ \E cached \in CacheStates : ImageIcrBegin(cached)
    \/ \E answer \in IcrAnswers : ImageIcrAnswer(answer)
    \/ ImageSave
    \/ ImageFinish

NextImage ==
    \/ ImageRun
    \/ ImageKill
    \/ ImageTick

SpecImage == InitImage /\ [][NextImage]_vars

InitAudit ==
    /\ script = "icr_match_audit"
    /\ src = EmptyMap
    /\ InitCommon
    /\ InitEnrichVars
    /\ InitImageVars
    /\ InitAuditVars

AuditRun ==
    \/ AuditStart
    \/ AuditSkip
    \/ \E answer \in ApiAnswers : AuditQuery(answer)
    \/ AuditSave
    \/ \E notify \in NotifyOutcomes : AuditWrite(notify)
    \/ \E notify \in NotifyOutcomes : AuditFinish(notify)

NextAudit ==
    \/ AuditRun
    \/ AuditKill
    \/ AuditTick

SpecAudit == InitAudit /\ [][NextAudit]_vars

\* Candidate lists for the matching logic: up to MaxCandidates candidates with
\* distinct ScientificName, with or without an accepted name, scores on a grid
\* around the thresholds.
ScoreGrid == {4000, 5999, 6000, 8000, 8799, 8800, 9000, 9300, 9499, 9500, 9700}
SciNames == << "sci1", "sci2", "sci3", "sci4" >>
CandidateLists ==
    UNION { { c \in [1 .. n -> {Item(SciNames[k], a, sc) :
                                  k \in 1 .. n, a \in {"", "latin"}, sc \in ScoreGrid}] :
              \A k \in 1 .. n : c[k].scientific_name = SciNames[k] } :
            n \in 0 .. MaxCandidates }

InitScore ==
    /\ script = "search_icr"
    /\ src = EmptyMap
    /\ InitCommon
    /\ InitEnrichVars
    /\ InitImageVars
    /\ search_result = NoResult
    /\ full_json = << >>
    /\ all_candidates \in CandidateLists

NextScore == ScoreMatch \/ ScoreWrite

SpecScore == InitScore /\ [][NextScore]_vars

\* The chain of image_enrich_strict.py on every unit, and the matching logic
\* of search_icr on candidate lists with the scores 0.99, 0.7 and 0.3.
ScenarioScores == {9900, 7000, 3000}
ScenarioLists ==
    UNION { { c \in [1 .. n -> {Item(SciNames[k], a, sc) :
                                  k \in 1 .. n, a \in {"", "latin"}, sc \in ScenarioScores}] :
              \A k \in 1 .. n : c[k].scientific_name = SciNames[k] } :
            n \in 0 .. MaxCandidates }
InitScenario ==
    \/ InitImage
    \/ /\ script = "search_icr"
       /\ src = EmptyMap
       /\ InitCommon
       /\ InitEnrichVars
       /\ InitImageVars
       /\ search_result = NoResult
       /\ full_json = << >>
       /\ all_candidates \in ScenarioLists
NextScenario == ImageRun \/ NextScore
SpecScenario == InitScenario /\ [][NextScenario]_vars

\* The checkpoint mirrors in every condition, a start with or without --resume.
InitMirrors ==
    /\ script = "load_best_checkpoint"
    /\ src = EmptyMap
    /\ InitCommon
    /\ InitImageVars
    /\ InitAuditVars
    /\ cp_files \in [1 .. NumMirrors -> MirrorContents]
    /\ args \in {[resume |-> r, max_urls |-> 0] : r \in BOOLEAN}
    /\ cache_file = EmptyMap
    /\ processed_log = {}
    /\ failed_log = {}
    /\ checkpoint = [path |-> 0, next_index |-> 0]
    /\ cache = EmptyMap
    /\ i = 0
    /\ processed_this_run = 0
    /\ result_map = EmptyMap
    /\ start_store = EmptyMap
    /\ start_index = 0
    /\ probed = {}
    /\ last_saved = NoSave
    /\ ever_reset = FALSE

NextMirrors == LoadMirrors

SpecMirrors == InitMirrors /\ [][NextMirrors]_vars

\* acs_audit.py, check_url: every way session.get and the read of the body
\* can end.  has_length: the response carries a Content-Length header.
BodyLengths == {0, 5}
GetOutcomes ==
    {[raised |-> "", status |-> st, has_length |-> h, header_length |-> hl, body_length |-> bl] :
        st \in {"200", "404"}, h \in BOOLEAN, hl \in BodyLengths, bl \in BodyLengths}
    \cup {[raised |-> e, status |-> None, has_length |-> FALSE, header_length |-> 0,
           body_length |-> 0] : e \in {"TimeoutError", "ClientConnectorError", "ValueError"}}

check_url(outcome) ==
    IF outcome.raised = "TimeoutError"
      THEN [status |-> None, content_length |-> 0, valid |-> FALSE, error |-> "timeout"]
    ELSE IF outcome.raised # ""
      THEN [status |-> None, content_length |-> 0, valid |-> FALSE,
            error |-> Str(outcome.raised)]
      ELSE LET content_length == IF outcome.has_length THEN outcome.header_length
                                                       ELSE outcome.body_length
           IN [status |-> outcome.status, content_length |-> content_length,
               valid |-> (outcome.status = "200" /\ content_length > 0),
               error |-> None]

CallCheckUrl ==
    /\ script = "check_url"
    /\ pc = "off"
    /\ search_result' = check_url(args)
    /\ pc' = "returned"
    /\ UNCHANGED << script, enrichDisk, enrichMem, enrichHist, clockVars, imageVars,
                    all_candidates, full_json, concVars, ioVars >>

CallTryAccsSearch ==
    /\ script = "try_accs_search"
    /\ pc = "off"
    /\ LET vs == QueryVariants(args.name)
       IN  search_result' =
              try_accs_search(args.name, [k \in 1 .. Len(vs) |-> AccsAnswer(vs[k], args.pages[k])])
    /\ pc' = "returned"
    /\ UNCHANGED << script, enrichDisk, enrichMem, enrichHist, clockVars, imageVars,
                    all_candidates, full_json, concVars, ioVars >>

\* acs_audit.py: attempt_recovery -------------------------------------------

\* A cultivar name: whether it has text outside parentheses, a parenthetical
\* suffix, and the word Variegated in its text.
RecoveryNames ==
    {n \in [text : BOOLEAN, paren : BOOLEAN, variegated : BOOLEAN] :
        (n.text \/ n.paren) /\ (n.variegated => n.text)}

\* name_to_slug: the slug says which parts of the name it spells, how it
\* spells Variegated, and whether a hyphen trails it.
name_to_slug(name) ==
    [text |-> name.text, paren |-> name.paren,
     veg |-> IF name.variegated THEN "variegated" ELSE "none", trailing |-> FALSE]

\* `if not var_slug`: the slug is the empty string.
IsEmptySlug(slug) == ~slug.text /\ ~slug.paren /\ ~slug.trailing

\* f"{base}/{slug}" under the letter page of the name, and URLs elsewhere.
UrlOf(slug) == [base |-> "letter", slug |-> slug]
NoUrl == [base |-> "none", slug |-> name_to_slug([text |-> FALSE, paren |-> FALSE, variegated |-> FALSE])]

\* name_to_acs_url
name_to_acs_url(name) == UrlOf(name_to_slug(name))

\* original_url.split("/")[-1]
LastSegment(url) == url.slug

\* Lines 156-176 without the discard of line 176.
variations_keep_original(name, original_url) ==
    LET slug == name_to_slug(name)
    IN  (((IF name.paren THEN {name_to_slug([name EXCEPT !.paren = FALSE])} ELSE {})
          \cup (IF slug.veg = "variegated" THEN {[slug EXCEPT !.veg = "var"]} ELSE {})
          \cup {[slug EXCEPT !.trailing = TRUE]})
         \ {slug})

\* Lines 156-176: the set of slug variations.  slug.endswith("-") and
\* clean != slug never hold for a slug name_to_slug made.
variations(name, original_url) ==
    LET slug == name_to_slug(name)
    IN  (((IF name.paren THEN {name_to_slug([name EXCEPT !.paren = FALSE])} ELSE {})
          \cup (IF slug.veg = "variegated" THEN {[slug EXCEPT !.veg = "var"]} ELSE {})
          \cup {[slug EXCEPT !.trailing = TRUE]})
         \ {slug}) \ {LastSegment(original_url)}

\* Lines 178-190: the loop over the variations in the order the set gives
\* them; checked are the URLs check_url was called with so far.
RECURSIVE TryVariations(_, _, _)
TryVariations(order, live, checked) ==
    IF order = << >>
      THEN [recovered |-> FALSE, new_url |-> NoUrl, method |-> None, checked |-> checked]
    ELSE IF IsEmptySlug(Head(order)) THEN TryVariations(Tail(order), live, checked)
    ELSE LET var_url == UrlOf(Head(order))
         IN  IF var_url \in live
               THEN [recovered |-> TRUE, new_url |-> var_url, method |-> "variation",
                     checked |-> checked \cup {var_url}]
               ELSE TryVariations(Tail(order), live, checked \cup {var_url})

\* attempt_recovery.  live: the URLs check_url finds valid; order: the slug
\* variations in the order of iteration of the set.
attempt_recovery(name, original_url, live, order) ==
    LET deterministic_url == name_to_acs_url(name)
    IN  IF deterministic_url # original_url /\ deterministic_url \in live
          THEN [recovered |-> TRUE, new_url |-> deterministic_url,
                method |-> "deterministic_slug", checked |-> {deterministic_url}]
          ELSE TryVariations(order, live,
                             IF deterministic_url # original_url
                               THEN {deterministic_url} ELSE {})

\* The orders in which a set can be iterated.
Enumerations(set) ==
    {order \in [1 .. Cardinality(set) -> set] :
        \A a, b \in 1 .. Cardinality(set) : order[a] = order[b] => a = b}

\* The URLs a call can meet: those it builds and one that is none of them.
RecoveryUrls(name) ==
    {name_to_acs_url(name)}
    \cup {UrlOf(v) : v \in variations_keep_original(name, NoUrl)}
    \cup {[base |-> "other", slug |-> name_to_slug(name)]}

CallAttemptRecovery ==
    /\ script = "attempt_recovery"
    /\ pc = "off"
    /\ \E order \in Enumerations(variations(args.name, args.original_url)) :
          search_result' = attempt_recovery(args.name, args.original_url, args.live, order)
    /\ pc' = "returned"
    /\ UNCHANGED << script, enrichDisk, enrichMem, enrichHist, clockVars, imageVars,
                    all_candidates, full_json, concVars, ioVars >>

\* backfill_ocr_strict.py: extract_size -------------------------------------

\* SIZE_PATTERNS in list order: the label and the words of its pattern (the
\* patterns match whole words, separated by whitespace, in any letter case).
SIZE_PATTERNS ==
    << [size_name |-> "Very large", words |-> << "very", "large" >>],
       [size_name |-> "Large to very large", words |-> << "large", "to", "very", "large" >>],
       [size_name |-> "Medium to large", words |-> << "medium", "to", "large" >>],
       [size_name |-> "Small to medium", words |-> << "small", "to", "medium" >>],
       [size_name |-> "Miniature to small", words |-> << "miniature", "to", "small" >>],
       [size_name |-> "Large", words |-> << "large" >>],
       [size_name |-> "Medium", words |-> << "medium" >>],
       [size_name |-> "Small", words |-> << "small" >>],
       [size_name |-> "Miniature", words |-> << "miniature" >> ] >>

\* A description: its words in lower case, and whether the text is written
\* in capitals.
lower(description) == description.words

\* pattern.search(description)
Search(words, description) ==
    LET text == lower(description)
    IN  \E k \in 0 .. Len(text) - Len(words) :
            SubSeq(text, k + 1, k + Len(words)) = words

\* extract_size
extract_size(description) ==
    LET hits == {k \in 1 .. Len(SIZE_PATTERNS) : Search(SIZE_PATTERNS[k].words, description)}
    IN  IF hits = {} THEN ""
        ELSE SIZE_PATTERNS[CHOOSE k \in hits : \A j \in hits : k <= j].size_name

\* The descriptions: a size phrase that is one of the labels, or none,
\* between words that name no size.
SizePhrases ==
    {[stated |-> SIZE_PATTERNS[k].size_name, words |-> SIZE_PATTERNS[k].words] :
        k \in 1 .. Len(SIZE_PATTERNS)}
    \cup {[stated |-> "", words |-> << >>]}
OtherWords == {<< >>, << "pink" >>, << "semidouble", "flower" >>}

CallExtractSize ==
    /\ script = "extract_size"
    /\ pc = "off"
    /\ search_result' = extract_size(args.description)
    /\ pc' = "returned"
    /\ UNCHANGED << script, enrichDisk, enrichMem, enrichHist, clockVars, imageVars,
                    all_candidates, full_json, concVars, ioVars >>

CallFetchOne ==
    /\ script = "fetch_one"
    /\ pc = "off"
    /\ search_result' = fetch_one(args)
    /\ pc' = "returned"
    /\ UNCHANGED << script, enrichDisk, enrichMem, enrichHist, clockVars, imageVars,
                    all_candidates, full_json, concVars, ioVars >>

\* The probe functions on their own: one call of a cached lookup of
\* image_enrich_strict.py on every name, cache state and sequence of network
\* answers, one call of check_url and of fetch_one on every request outcome.
InitProbes ==
    /\ script \in {"try_socal", "try_icr", "check_url", "fetch_one", "try_accs_search",
                   "attempt_recovery", "extract_size"}
    /\ script = "extract_size" =>
          \E phrase \in SizePhrases, before \in OtherWords, after \in OtherWords,
             capitals \in BOOLEAN :
                args = [stated |-> phrase.stated,
                        description |-> [words |-> before \o phrase.words \o after,
                                         capitals |-> capitals]]
    /\ src = EmptyMap
    /\ InitCommon
    /\ InitImageVars
    /\ InitAuditVars
    /\ cp_files = EmptyMap
    /\ cache_file = EmptyMap
    /\ processed_log = {}
    /\ failed_log = {}
    /\ checkpoint = NewCheckpoint
    /\ cache = EmptyMap
    /\ i = 0
    /\ processed_this_run = 0
    /\ result_map = EmptyMap
    /\ start_store = EmptyMap
    /\ start_index = 0
    /\ probed = {}
    /\ last_saved = NoSave
    /\ ever_reset = FALSE
    /\ script \in {"try_socal", "try_icr"} =>
          \E name \in Names, cached \in CacheStates :
             \E answers \in [1 .. Len(QueryVariants(name)) ->
                                IF script = "try_socal" THEN HeadAnswers ELSE IcrAnswers] :
                 args = [name |-> name, cached |-> cached, answers |-> answers]
    /\ script = "check_url" => \E outcome \in GetOutcomes : args = outcome
    /\ script = "attempt_recovery" =>
          \E name \in RecoveryNames :
             \E original_url \in RecoveryUrls(name), live \in SUBSET RecoveryUrls(name) :
                 args = [name |-> name, original_url |-> original_url, live |-> live]
    /\ script = "try_accs_search" =>
          \E name \in Names :
             \E pages \in [1 .. Len(QueryVariants(name)) -> AccsPages] :
                 args = [name |-> name, pages |-> pages]
    /\ script = "fetch_one" => \E outcome \in FetchOutcomes : args = outcome

NextProbes ==
    \/ CallTrySocal \/ CallTryIcr \/ CallCheckUrl \/ CallFetchOne \/ CallTryAccsSearch
    \/ CallAttemptRecovery \/ CallExtractSize

SpecProbes == InitProbes /\ [][NextProbes]_vars

---------------------------------------------------------------------------
\* The dataset scripts: acs_image_backfill_scoped.py, acs_audit.py
\* (apply_fixes), acs_backfill_audit.py (main), backfill_ocr_strict.py
\* (steps 4 to 7).  Each is one batch over data/camellias_*.json.

\* Every variable but script and args, before the batch runs.
InitBatch ==
    /\ src = EmptyMap
    /\ InitCommon
    /\ InitImageVars
    /\ InitAuditVars
    /\ cp_files = EmptyMap
    /\ cache_file = EmptyMap
    /\ processed_log = {}
    /\ failed_log = {}
    /\ checkpoint = NewCheckpoint
    /\ cache = EmptyMap
    /\ i = 0
    /\ processed_this_run = 0
    /\ result_map = EmptyMap
    /\ start_store = EmptyMap
    /\ start_index = 0
    /\ probed = {}
    /\ last_saved = NoSave
    /\ ever_reset = FALSE

\* A name of a dataset entry: its text (id: the names sort by it) and whether
\* it carries surrounding whitespace.
NameIds == {0, 1}
DatasetNames == [id : NameIds, pad : BOOLEAN]

\* str.strip()
strip(name) == [name EXCEPT !.pad = FALSE]

\* The positions of seq whose element satisfies Test.
Positions(seq, Test(_)) == {k \in 1 .. Len(seq) : Test(seq[k])}

\* sorted(data, key = lambda e: e["name"].strip().lower()): a stable sort by
\* the text of the name.
RECURSIVE SortedByName(_)
SortedByName(data) ==
    IF data = << >> THEN << >>
    ELSE LET least == CHOOSE k \in 1 .. Len(data) :
                          \A j \in 1 .. Len(data) :
                              \/ data[k].name.id < data[j].name.id
                              \/ data[k].name.id = data[j].name.id /\ k <= j
             rest  == [j \in 1 .. Len(data) - 1 |-> IF j < least THEN data[j] ELSE data[j + 1]]
         IN  << data[least] >> \o SortedByName(rest)

\* acs_image_backfill_scoped.py -------------------------------------------

\* What entry.get("image") gives: None (key absent or null), "" or a URL.
Images == {None, "", "old_url"}
ImageEntries == {[name |-> n, image |-> img, imageSource |-> IF img = "old_url" THEN "socal" ELSE None] :
                    n \in DatasetNames, img \in Images}

\* `if current_image:`
HasImage(entry) == entry.image \notin {None, ""}

\* load_dataset_lookup: the entries of the letter files in file order, keyed
\* by stripped name; a later entry of the same stripped name replaces an
\* earlier one.  NoEntry where the name has no key.
NoEntry == [name |-> [id |-> -1, pad |-> FALSE], image |-> None, imageSource |-> None]
load_dataset_lookup(data, name) ==
    LET at == Positions(data, LAMBDA e : strip(e.name) = name)
    IN  IF at = {} THEN NoEntry
        ELSE data[CHOOSE k \in at : \A j \in at : j <= k]

\* main, the loop over the scoped names: the names it writes to updated_out.
\* fetched[id] tells whether fetch_acs_image found an image on the ACS page.
updated_out(data, scoped, fetched) ==
    {name \in scoped :
        LET entry == load_dataset_lookup(data, name)
        IN  /\ entry # NoEntry
            /\ ~HasImage(entry)
            /\ fetched[name.id]}

\* sync_to_dataset: every entry whose stripped name was updated gets the
\* ACS image; the file is sorted and written.
sync_to_dataset(data, updates) ==
    SortedByName([k \in 1 .. Len(data) |->
        IF strip(data[k].name) \in updates
          THEN [data[k] EXCEPT !.image = "acs_image", !.imageSource = "acs"]
          ELSE data[k]])

\* One run of acs_image_backfill_scoped.py.
BackfillImages ==
    /\ script = "acs_image_backfill_scoped"
    /\ pc = "off"
    /\ LET updated == updated_out(args.data, args.scoped, args.fetched)
       IN  search_result' = [data    |-> IF updated # {}
                                           THEN sync_to_dataset(args.data, updated)
                                           ELSE args.data,
                             updated |-> updated]
    /\ pc' = "done"
    /\ UNCHANGED << script, enrichDisk, enrichMem, enrichHist, clockVars, imageVars,
                    all_candidates, full_json, concVars, ioVars >>

\* acs_audit.py: run_audit, run_recovery, apply_fixes ----------------------

\* The acs_url of an entry: null, a URL the site answers 200 with content,
\* or a URL it does not.  new_url is the URL attempt_recovery found valid.
AcsUrls == {None, "live_url", "dead_url"}
AcsEntries == [name : DatasetNames, acs_url : AcsUrls]

\* check_url(...)["valid"] on the URLs of the dataset.
IsValid(url) == url = "live_url"

\* entries_with_url (line 99): the positions whose acs_url is not empty.
entries_with_url(data) == Positions(data, LAMBDA e : e.acs_url # None)

\* The orders in which n concurrent checks can finish.
Orders(n) == {order \in [1 .. n -> 1 .. n] : \A a, b \in 1 .. n : order[a] = order[b] => a = b}

\* run_audit: results[name] = result (line 116) keeps, for each name, the
\* result of the check of that name that finished last; order[k] is the rank
\* at which the check of entry k finished.  NoAudit: the name has no result.
NoAudit == [index |-> 0, original_url |-> None, action |-> "none"]
run_audit(data, order, name) ==
    LET mine == {k \in entries_with_url(data) : data[k].name = name}
    IN  IF mine = {} THEN NoAudit
        ELSE LET k == CHOOSE k \in mine : \A j \in mine : order[j] <= order[k]
             IN  [index |-> k, original_url |-> data[k].acs_url,
                  action |-> IF IsValid(data[k].acs_url) THEN "ok" ELSE "needs_fix"]

\* name_to_idx (line 230): the last position of each name.
name_to_idx(data, name) ==
    LET at == Positions(data, LAMBDA e : e.name = name)
    IN  CHOOSE k \in at : \A j \in at : j <= k

\* apply_fixes: for every audited name that needs a fix, the entry at
\* name_to_idx gets the recovered URL, or null when recovery found none.
apply_fixes(data, order, recovered) ==
    [k \in 1 .. Len(data) |->
        LET audit == run_audit(data, order, data[k].name)
        IN  IF audit.action = "needs_fix" /\ k = name_to_idx(data, data[k].name)
              THEN [data[k] EXCEPT !.acs_url = IF recovered[data[k].name.id]
                                                 THEN "new_url" ELSE None]
              ELSE data[k]]

\* One run of acs_audit.py main: audit, recovery, apply_fixes; sync_artifacts
\* writes the list as apply_fixes left it.
AcsAudit ==
    /\ script = "acs_audit"
    /\ pc = "off"
    /\ search_result' = [data |-> apply_fixes(args.data, args.order, args.recovered)]
    /\ pc' = "done"
    /\ UNCHANGED << script, enrichDisk, enrichMem, enrichHist, clockVars, imageVars,
                    all_candidates, full_json, concVars, ioVars >>

\* acs_backfill_audit.py: main ---------------------------------------------

\* normalize_name: lower case, no diacritics, no punctuation, single spaces.
\* Two names have one normalized form when they differ in such marks only:
\* the pad of a name stands for them.
NormalizedName(name) == name.id

\* acs_catalog_full.json: its records by position; record k has its own page.
CatalogPositions == {1, 2}
CatalogUrl(k) == IF k = 1 THEN "acs_page_1" ELSE "acs_page_2"
CatalogUrls == {CatalogUrl(k) : k \in CatalogPositions}
Catalogs == [CatalogPositions -> DatasetNames]
BackfillEntries == [name : DatasetNames, acs_url : {None} \cup CatalogUrls]

\* Lines 101-108 without the test of line 105: a later record of a normalized
\* name replaces the earlier one.
acs_lookup_last(catalog, nk) ==
    LET at == {k \in CatalogPositions : NormalizedName(catalog[k]) = nk}
    IN  IF at = {} THEN 0 ELSE CHOOSE k \in at : \A j \in at : j <= k

\* acs_lookup (lines 101-108): the first record of each normalized name; 0
\* when the catalog has none.
acs_lookup(catalog, nk) ==
    LET at == {k \in CatalogPositions : NormalizedName(catalog[k]) = nk}
    IN  IF at = {} THEN 0 ELSE CHOOSE k \in at : \A j \in at : k <= j

\* added and replaced applied without the filter of lines 141-144.
validated_unfiltered(validity, url) == TRUE

\* validity.get(url, False) (lines 141-144) on the answers of batch_validate.
validated(validity, url) == validity[url]

\* The normalized names of added_valid / replaced_valid (lines 114-144, 156-157).
add_map(data, catalog, validity) ==
    {NormalizedName(e.name) : e \in
        {data[k] : k \in Positions(data, LAMBDA e :
            LET rec == acs_lookup(catalog, NormalizedName(e.name))
            IN  rec # 0 /\ e.acs_url = None /\ validated(validity, CatalogUrl(rec)))}}
replace_map(data, catalog, validity) ==
    {NormalizedName(e.name) : e \in
        {data[k] : k \in Positions(data, LAMBDA e :
            LET rec == acs_lookup(catalog, NormalizedName(e.name))
            IN  /\ rec # 0 
                /\ e.acs_url \notin {None, CatalogUrl(rec)}
                /\ validated(validity, CatalogUrl(rec)))}}

\* Step 5 (lines 159-167): every entry whose normalized name is in one of the
\* maps gets the map's URL, the canonical URL of that normalized name.
apply_changes(data, catalog, validity) ==
    [k \in 1 .. Len(data) |->
        LET nk == NormalizedName(data[k].name)
        IN  IF nk \in add_map(data, catalog, validity) \cup replace_map(data, catalog, validity)
              THEN [data[k] EXCEPT !.acs_url = CatalogUrl(acs_lookup(catalog, nk))]
              ELSE data[k]]

\* One run of acs_backfill_audit.py main.
AcsBackfillAudit ==
    /\ script = "acs_backfill_audit"
    /\ pc = "off"
    /\ search_result' = [data |-> apply_changes(args.data, args.catalog, args.validity)]
    /\ pc' = "done"
    /\ UNCHANGED << script, enrichDisk, enrichMem, enrichHist, clockVars, imageVars,
                    all_candidates, full_json, concVars, ioVars >>

\* backfill_ocr_strict.py: steps 4 to 7 -------------------------------------

\* An OCR name: its first character after the trim, the rest of its text
\* (id) and whether it carries surrounding whitespace.
FirstChars == {"a", "B", "1"}
OcrNames == [first : FirstChars, id : NameIds, pad : BOOLEAN]
OcrEntries == [name : OcrNames]

\* str.upper() and str.isalpha() on one character.
upper(char) == IF char = "a" THEN "A" ELSE char
isalpha(char) == char \in {"a", "A", "B"}

\* The files of data/ that hold entries, in the order of sorted(glob).
LetterFiles == << "1", "A", "B" >>

\* {e["name"].strip() for e in data}
StrippedNames(data) == {strip(data[k].name) : k \in 1 .. Len(data)}

\* The entries of seq whose stripped name is not in seen and that are the
\* first of their stripped name, in the order of seq (lines 249-263, 301-309).
RECURSIVE FirstOfName(_, _)
FirstOfName(seq, seen) ==
    IF seq = << >> THEN << >>
    ELSE IF strip(Head(seq).name) \in seen
           THEN FirstOfName(Tail(seq), seen)
           ELSE << Head(seq) >> \o FirstOfName(Tail(seq), seen \cup {strip(Head(seq).name)})

\* step4_strict_match: the OCR entries whose stripped name is not in
\* camellias.json, the first of each name only.
step4_strict_match(ocr_entries, existing) ==
    FirstOfName(ocr_entries, StrippedNames(existing))

\* step5_add_to_dataset on one letter file: the entries of to_add of that
\* letter that the file does not hold yet are appended, the file is sorted.
step5_add_to_dataset(files, to_add) ==
    [letter \in DOMAIN files |->
        LET mine == SelectSeq(to_add, LAMBDA e : upper(e.name.first) = letter)
        IN  IF mine = << >> THEN files[letter]
            ELSE SortedByName(files[letter] \o FirstOfName(mine, StrippedNames(files[letter])))]

\* step6_regenerate_artifacts: camellias.json is the concatenation of the
\* files whose name is one letter, in the order of the file names.
RECURSIVE step6_regenerate_artifacts(_, _)
step6_regenerate_artifacts(files, letters) ==
    IF letters = << >> THEN << >>
    ELSE (IF isalpha(Head(letters)) THEN files[Head(letters)] ELSE << >>)
            \o step6_regenerate_artifacts(files, Tail(letters))

\* step7_audit: backfill_missing_after_sync.json.
step7_audit(to_add, final_data) ==
    SelectSeq(to_add, LAMBDA e : strip(e.name) \notin StrippedNames(final_data))

\* One run of backfill_ocr_strict.py main from step 4 on; args.files are the
\* letter files and camellias.json their concatenation.
BackfillOcr ==
    /\ script = "backfill_ocr_strict"
    /\ pc = "off"
    /\ LET existing   == step6_regenerate_artifacts(args.files, LetterFiles)
           to_add     == step4_strict_match(args.ocr_entries, existing)
           files      == step5_add_to_dataset(args.files, to_add)
           final_data == step6_regenerate_artifacts(files, LetterFiles)
       IN  search_result' = [to_add        |-> to_add,
                             files         |-> files,
                             data          |-> final_data,
                             still_missing |-> step7_audit(to_add, final_data)]
    /\ pc' = "done"
    /\ UNCHANGED << script, enrichDisk, enrichMem, enrichHist, clockVars, imageVars,
                    all_candidates, full_json, concVars, ioVars >>

\* The letter files before the run: a sorted file of unpadded names for each
\* letter, no file for names that begin with another character.
SortedFiles(first) ==
    {SortedByName(seq) : seq \in
        UNION {[1 .. n -> {[name |-> [first |-> first, id |-> d, pad |-> FALSE]] : d \in NameIds}] :
                  n \in 0 .. Cardinality(NameIds)}}

\* scripts/enrich_icr_chinese_name.py: update_file ---------------------------

\* A record of a data file: its icr_url (u, with or without surrounding
\* whitespace; NoIcrUrl when the field is not a string) and its chinese_name
\* list.
NoIcrUrl == [u |-> 0 - 1, pad |-> FALSE]
IcrUrlValues == [u : {0, 1}, pad : BOOLEAN] \cup {NoIcrUrl}
ChineseNames == {<< >>, << "zh1" >>, << "zh2", "zh2" >>}
EnrichRecords == [icr_url : IcrUrlValues, chinese_name : ChineseNames]

\* The results a result map can hold for a URL.
UrlResults == {fetch_one(resp) : resp \in FetchOutcomes}
ResultMaps == UNION {[keys -> UrlResults] : keys \in SUBSET {0, 1}}

\* ensure_chinese_name_field on one list: each non-empty string once, in
\* order.
RECURSIVE ensure_chinese_name_field(_)
ensure_chinese_name_field(cur) ==
    IF cur = << >> THEN << >>
    ELSE LET front == ensure_chinese_name_field(SubSeq(cur, 1, Len(cur) - 1))
             x == cur[Len(cur)]
         IN IF \A k \in 1 .. Len(front) : front[k] # x THEN Append(front, x) ELSE front

\* apply_result_map: the records after the call.
apply_result_map(records, map) ==
    [k \in DOMAIN records |->
        LET r == records[k]
            u == r.icr_url.u
        IN IF r.icr_url # NoIcrUrl /\ u \in DOMAIN map
             THEN [r EXCEPT !.chinese_name = map[u].chinese_name]
             ELSE [r EXCEPT !.chinese_name = ensure_chinese_name_field(@)]]

\* update_file on a file that holds a list of records: the file after the
\* call, written only when apply_result_map changed a record.
UpdateFile ==
    /\ script = "update_file"
    /\ pc = "off"
    /\ LET out == apply_result_map(args.records, args.result_map)
       IN search_result' = [data |-> out, changed |-> (out # args.records)]
    /\ pc' = "done"
    /\ UNCHANGED << script, enrichDisk, enrichMem, enrichHist, clockVars, imageVars,
                    all_candidates, full_json, concVars, ioVars >>

\* The datasets: NumRecords entries in the order of the letter files.
Datasets(Entries) == [1 .. NumRecords -> Entries]

InitDatasets ==
    /\ InitBatch
    /\ script \in {"acs_image_backfill_scoped", "acs_audit", "acs_backfill_audit",
                   "backfill_ocr_strict", "update_file"}
    /\ script = "update_file" =>
          \E records \in Datasets(EnrichRecords), map \in ResultMaps :
                args = [records |-> records, result_map |-> map]
    /\ script = "acs_image_backfill_scoped" =>
          \E data \in Datasets(ImageEntries), scoped \in SUBSET {strip(n) : n \in DatasetNames},
             fetched \in [NameIds -> BOOLEAN] :
                args = [data |-> data, scoped |-> scoped, fetched |-> fetched]
    /\ script = "acs_audit" =>
          \E data \in Datasets(AcsEntries), order \in Orders(NumRecords),
             recovered \in [NameIds -> BOOLEAN] :
                args = [data |-> data, order |-> order, recovered |-> recovered]
    /\ script = "acs_backfill_audit" =>
          \E data \in Datasets(BackfillEntries), catalog \in Catalogs,
             validity \in [CatalogUrls -> BOOLEAN] :
                args = [data |-> data, catalog |-> catalog, validity |-> validity]
    /\ script = "backfill_ocr_strict" =>
          \E ocr_entries \in Datasets(OcrEntries), file_a \in SortedFiles("a"),
             file_b \in SortedFiles("B") :
                args = [ocr_entries |-> ocr_entries,
                        files |-> [letter \in {"1", "A", "B"} |->
                                      IF letter = "A" THEN file_a
                                      ELSE IF letter = "B" THEN file_b ELSE << >>]]

NextDatasets == BackfillImages \/ AcsAudit \/ AcsBackfillAudit \/ BackfillOcr \/ UpdateFile

SpecDatasets == InitDatasets /\ [][NextDatasets]_vars

\* The state after the tasks are created and before any of them runs.
InitConc ==
    /\ script \in {"acs_audit.run_audit", "acs_audit.run_recovery",
                   "acs_backfill_audit.batch_validate"}
    /\ src = EmptyMap
    /\ pc = "gather"
    /\ since_request = delay
    /\ last_gap = delay
    /\ InitEnrichVars
    /\ InitImageVars
    /\ InitAuditVars
    /\ InitIo
    /\ waiting = Counts(IF script = "acs_audit.run_recovery" THEN MaxAttempts ELSE 1, NumProbes)
    /\ in_flight = Counts(IF script = "acs_audit.run_recovery" THEN MaxAttempts ELSE 1, 0)
    /\ finished = 0
    /\ semaphore = IF script = "acs_backfill_audit.batch_validate"
                     THEN 0 ELSE Semaphore(CONCURRENCY)
    /\ num_threads = 0
    /\ work_queue = 0
    /\ tasks = << >>
    /\ results_by_name = EmptyMap

NextConc ==
    \/ CheckEntryEnter
    \/ \E notify \in NotifyOutcomes \cup {"none"} : CheckEntryExit(notify)
    \/ \E notify \in NotifyOutcomes : RunAuditReturn(notify)
    \/ \E more \in BOOLEAN : RecoverySkip(more)
    \/ \E k \in 1 .. MaxAttempts : RecoveryEnter(k)
    \/ \E k \in 1 .. MaxAttempts, valid \in BOOLEAN, more \in BOOLEAN : RecoveryExit(k, valid, more)
    \/ \E idle \in BOOLEAN : PoolSubmit(idle)
    \/ WorkerTake
    \/ WorkerDone

SpecConc == InitConc /\ [][NextConc]_vars

\* run_audit of acs_audit.py with its check_entry tasks one by one ----------

\* The entries of the data: entry k has a name of its own or the name with
\* id 1, and any acs_url.
TaskEntries(k) ==
    [name : {[id |-> k, pad |-> FALSE], [id |-> 1, pad |-> FALSE]}, acs_url : AcsUrls]
TaskData ==
    {data \in [1 .. NumTasks -> UNION {TaskEntries(k) : k \in 1 .. NumTasks}] :
        \A k \in 1 .. NumTasks : data[k] \in TaskEntries(k)}

\* A dict that holds the latest result only.
RecordResultAlone(dict, name, result) == Put(EmptyMap, name, result)

\* results[name] = result (line 116).
RecordResult(dict, name, result) == Put(dict, name, result)

\* Lines 92-127: the tasks are created, one for each entry with an acs_url.
RunAuditStart ==
    /\ script = "acs_audit.check_entry"
    /\ pc = "off"
    /\ results_by_name' = EmptyMap
    /\ finished' = 0
    /\ semaphore' = Semaphore(CONCURRENCY)
    /\ tasks' = [k \in 1 .. Len(args.data) |->
                    IF k \in entries_with_url(args.data) THEN "created" ELSE "none"]
    /\ pc' = IF entries_with_url(args.data) = {} THEN "done" ELSE "gather"
    /\ UNCHANGED << script, waiting, in_flight, num_threads, work_queue, otherVars >>

\* check_entry of entry k enters the semaphore and awaits check_url.
TaskEnter(k) ==
    /\ script = "acs_audit.check_entry"
    /\ pc = "gather"
    /\ tasks[k] = "created"
    /\ CanAcquire(semaphore)
    /\ semaphore' = semaphore - 1
    /\ tasks' = [tasks EXCEPT ![k] = "checking"]
    /\ UNCHANGED << script, pc, waiting, in_flight, finished, num_threads, work_queue,
                    results_by_name, otherVars >>

\* check_url of entry k returns: lines 110-123 run without an await.
TaskExit(k, notify) ==
    /\ script = "acs_audit.check_entry"
    /\ pc = "gather"
    /\ tasks[k] = "checking"
    /\ semaphore' = semaphore + 1
    /\ LET entry == args.data[k]
           valid == IsValid(entry.acs_url)
       IN results_by_name' =
             RecordResult(results_by_name, entry.name,
                          [index |-> k, original_url |-> entry.acs_url,
                           action |-> IF valid THEN "ok" ELSE "needs_fix"])
    /\ finished' = finished + 1
    /\ tasks' = [tasks EXCEPT ![k] = "recorded"]
    /\ notify # "none" =>
          (finished' % PROGRESS_INTERVAL = 0
             \/ finished' = Cardinality(entries_with_url(args.data)))
    /\ notified' = IF notify = "none" THEN notified ELSE notify
    /\ pc' = IF notify # "none" /\ send_progress_event(notify) = "raised" THEN "crashed"
             ELSE IF \A j \in DOMAIN tasks' : tasks'[j] \in {"none", "recorded"}
                    THEN "done" ELSE pc
    /\ UNCHANGED << script, waiting, in_flight, num_threads, work_queue, torn, io_failed,
                    discarded >>
    /\ UNCHANGED otherVars0

InitGather ==
    /\ InitBatch
    /\ script = "acs_audit.check_entry"
    /\ \E data \in TaskData : args = [data |-> data]

NextGather ==
    \/ RunAuditStart
    \/ \E k \in 1 .. NumTasks : TaskEnter(k)
    \/ \E k \in 1 .. NumTasks, notify \in NotifyOutcomes \cup {"none"} : TaskExit(k, notify)
    \/ \E notify \in NotifyOutcomes : RunAuditReturn(notify)

SpecGather == InitGather /\ [][NextGather]_vars

\* The two scripts that send progress events.
InitNotify == InitAudit \/ (InitConc /\ script = "acs_audit.run_audit")
NextNotify ==
    \/ NextAudit
    \/ CheckEntryEnter
    \/ \E notify \in NotifyOutcomes \cup {"none"} : CheckEntryExit(notify)
    \/ \E notify \in NotifyOutcomes : RunAuditReturn(notify)
SpecNotify == InitNotify /\ [][NextNotify]_vars

\* The three resumable scripts.
InitResume == InitEnrich \/ InitImage \/ InitAudit
NextResume == NextEnrich \/ NextImage \/ NextAudit
SpecResume == InitResume /\ [][NextResume]_vars

\* The runs of the three scripts, left alone.
NextRuns == EnrichRun \/ ImageRun \/ AuditRun

\* The three scripts, and kills of enrich_icr_chinese_name between two steps
\* (a resumed run of it meets cached URLs only after a kill); a process that
\* is not killed keeps running.
NextLive ==
    \/ NextRuns
    \/ EnrichKill
SpecLive == InitResume /\ [][NextLive]_vars /\ WF_vars(NextRuns)

\* The three scripts with kills, between two steps and inside a file write.
NextKills ==
    \/ NextLive
    \/ ImageKill
    \/ AuditKill
    \/ EnrichKillInWrite
    \/ ImageKillInSave
    \/ AuditKillInSave
SpecKills == InitResume /\ [][NextKills]_vars

\* The three scripts with writes that raise.
NextFaults ==
    \/ NextRuns
    \/ \E truncated \in BOOLEAN : EnrichWriteFails(truncated)
    \/ \E truncated \in BOOLEAN : ImageSaveFails(truncated)
    \/ \E truncated \in BOOLEAN : AuditSaveFails(truncated)
SpecFaults == InitResume /\ [][NextFaults]_vars

---------------------------------------------------------------------------
\* Claims about scripts/enrich_icr_chinese_name.py

\* The outcomes of one uninterrupted pass over all URLs.
OnePass == [u \in 0 .. total - 1 |-> fetch_one(src[u])]

\* The checkpoint a resumed start would load from the disk as it is now.
DurableCheckpoint == load_best_checkpoint(ReadableFiles(cp_files, torn), FALSE)

\* C1 (idempotent resume): a run that is killed at any point between two
\* steps and resumed with --resume, any number of times, leaves the loop with
\* the same outcome for every unit as one uninterrupted pass.
C1_IdempotentResume ==
    (script = "enrich_icr_chinese_name" /\ pc = "done" /\ i >= total /\ ~ever_reset)
        => result_map = OnePass

\* C2: whatever the instant of a kill, every URL index below the durably
\* saved next_index has a durably saved url-cache entry with its final outcome.
C2_CursorNeverPastUnsavedOutcome ==
    script = "enrich_icr_chinese_name" =>
        \A j \in 0 .. total - 1 :
            j < DurableCheckpoint.next_index =>
                /\ urls[j] \in DOMAIN cache_file
                /\ cache_file[urls[j]] = OnePass[urls[j]]

\* C10 (checkpoint monotonicity): between two units of a run that started at
\* index 0, both checkpoint files hold next_index = number of units processed;
\* and within a run the next_index written by successive saves never decreases.
C10_CheckpointMonotone ==
    /\ [](script = "enrich_icr_chinese_name" /\ pc = "loop" /\ start_index = 0
            => \A p \in {1, 2} : p \in DOMAIN cp_files
                                 /\ cp_files[p].next_index = processed_this_run)
    /\ [][last_saved # NoSave /\ last_saved' # NoSave /\ pc \notin {"off", "done"}
            => last_saved' >= last_saved]_vars

C10_Witness ==
    /\ script = "enrich_icr_chinese_name" /\ pc = "loop" /\ start_index = 0
    /\ processed_this_run = 2
    /\ cp_files[1].next_index = 2 /\ cp_files[2].next_index = 2

---------------------------------------------------------------------------
\* Claims about the rate limit

\* The delay the running script is configured with.
ConfiguredDelay ==
    IF script = "enrich_icr_chinese_name" THEN delay
    ELSE IF script = "image_enrich_strict" THEN ICR_DELAY
    ELSE RATE_LIMIT_SECONDS

\* C3 (rate-limit invariant): within one run, any two consecutive requests to
\* the rate-limited ICR source, those for successive query variants of one
\* unit included, are dispatched at least the configured delay apart.
C3_RateLimit == last_gap >= ConfiguredDelay

---------------------------------------------------------------------------
\* Claims about resumed runs

\* The outcomes image_enrich_strict reports for a name in its output lists.
ImageOutcomes(name) ==
    {[status |-> "found", image |-> added[k].image, source |-> added[k].imageSource] :
        k \in {j \in 1 .. Len(added) : added[j].name = name}}
    \cup {[status |-> "ambiguous", reason |-> skipped_ambiguous[k].reason] :
        k \in {j \in 1 .. Len(skipped_ambiguous) : skipped_ambiguous[j].name = name}}
    \cup {[status |-> "missing"] :
        k \in {j \in 1 .. Len(missing) : missing[j].name = name}}

\* The results icr_match_audit reports for a name in its output.
AuditOutcomes(name) ==
    {full_json[k] : k \in {j \in 1 .. Len(full_json) : full_json[j].input_name = name}}

\* C4 (cache short-circuit): a unit whose key had a persisted entry when the
\* run started in resume mode gets no network probe during the run, keeps that
\* entry in memory, and is reported with that entry when the run completes.
C4_CacheShortCircuit ==
    \A key \in DOMAIN start_store :
        /\ key \notin probed
        /\ script = "enrich_icr_chinese_name" =>
              /\ key \in DOMAIN cache
              /\ cache[key] = load_url_cache(start_store, FALSE)[key]
              /\ pc = "done" => key \in DOMAIN result_map /\ result_map[key] = start_store[key]
        /\ script = "image_enrich_strict" =>
              /\ key \in DOMAIN progress
              /\ progress[key] = start_store[key]
              /\ pc = "done" => ImageOutcomes(key) = {start_store[key]}
        /\ script = "icr_match_audit" =>
              /\ key \in DOMAIN progress
              /\ progress[key] = start_store[key]
              /\ pc = "done" => AuditOutcomes(key) = {start_store[key]}

C4_Witness ==
    /\ script = "image_enrich_strict"
    /\ pc = "done"
    /\ DOMAIN start_store = {entries[0].name}
    /\ probed = {entries[1].name}
    /\ ImageOutcomes(entries[0].name) = {start_store[entries[0].name]}

---------------------------------------------------------------------------
\* Claims about the strategy chain of image_enrich_strict.py

\* The strategies in chain order, by source tag.
StrategyTag == << "socal", "accs", "acs", "icr" >>

\* Where main stands when strategy k + 1 is the next thing it does.
NextStrategyAt == << {"accs"}, {"acs"}, {"icr", "icr_wait"} >>

\* No strategy is running or about to run for the unit.
ChainOver == pc \in {"save", "loop", "done"}

\* C5 (strategy fallthrough): if every strategy before strategy k returned
\* not-found and strategy k returned a found value, the unit's outcome is found
\* with strategy k's source tag, in memory and on disk, and no later strategy
\* is invoked for the unit.
C5_StrategyFallthrough ==
    script = "image_enrich_strict" =>
        \A k \in 1 .. Len(returned.rets) :
            (/\ returned.rets[k] = "found"
             /\ \A j \in 1 .. k - 1 : returned.rets[j] = "notfound")
            => /\ Len(returned.rets) = k
               /\ ChainOver
               /\ returned.name \in DOMAIN progress
               /\ progress[returned.name].status = "found"
               /\ progress[returned.name].source = StrategyTag[k]
               /\ pc # "save" => progress_file = progress
               /\ added # << >>
               /\ added[Len(added)].name = returned.name
               /\ added[Len(added)].imageSource = StrategyTag[k]

C5_Witness ==
    /\ script = "image_enrich_strict"
    /\ returned.rets = << "notfound", "notfound", "found" >>
    /\ ChainOver
    /\ progress[returned.name].source = "acs"

\* C6: the chain stops at the first Found or Ambiguous result; an Ambiguous
\* from the ACCS search makes the unit's outcome ambiguous with neither ACS nor
\* ICR invoked; after a NotFound or Error from one of the first three
\* strategies the next strategy is what main does next; a unit is recorded as
\* missing only after all four strategies returned without a result.
C6_ChainStopsAtFirstResult ==
    script = "image_enrich_strict" =>
        LET rets == returned.rets
            name == returned.name
        IN /\ \A k \in 1 .. Len(rets) :
                  rets[k] \in {"found", "ambiguous"} => Len(rets) = k /\ ChainOver
           /\ (Len(rets) >= 2 /\ rets[2] = "ambiguous")
                  => /\ name \in DOMAIN progress
                     /\ progress[name].status = "ambiguous"
                     /\ pc # "save" => progress_file = progress
                     /\ skipped_ambiguous # << >>
                     /\ skipped_ambiguous[Len(skipped_ambiguous)].name = name
           /\ \A k \in 1 .. 3 :
                  (k <= Len(rets) /\ rets[k] \in {"notfound", "error"})
                      => Len(rets) > k \/ pc \in NextStrategyAt[k]
           /\ (rets # << >> /\ name \in DOMAIN progress /\ progress[name].status = "missing")
                  => /\ Len(rets) = 4
                     /\ \A k \in 1 .. 4 : rets[k] \in {"notfound", "error"}

C6_Witness ==
    /\ script = "image_enrich_strict"
    /\ returned.rets = << "error", "ambiguous" >>
    /\ ChainOver
    /\ progress[returned.name].status = "ambiguous"

---------------------------------------------------------------------------
\* Claims about search_icr and write_outputs of icr_match_audit.py

Scores == [k \in 1 .. Len(all_candidates) |-> all_candidates[k].score]
Top == CHOOSE t \in {Scores[k] : k \in 1 .. Len(Scores)} :
           \A k \in 1 .. Len(Scores) : Scores[k] <= t

\* Besides a top candidate there is a second one within 0.05 of the top.
SecondIsClose ==
    \E j, k \in 1 .. Len(Scores) :
        j # k /\ Scores[j] = Top /\ Scores[k] >= Top - 500

\* The class the policy gives the candidate list.
Policy ==
    IF all_candidates = << >> THEN "no_match"
    ELSE IF Top >= 9500 THEN "exact"
    ELSE IF Top < 6000 THEN "no_match"
    ELSE IF SecondIsClose THEN "ambiguous"
    ELSE "fuzzy_match"

\* C7 (ambiguity policy): search_icr classifies every candidate list as exact
\* when top >= 0.95, fuzzy_match when 0.6 <= top < 0.95 and no second candidate
\* scores >= top - 0.05, ambiguous when 0.6 <= top < 0.95 and a second one
\* does, no_match when top < 0.6 or there is no candidate; a fuzzy match is
\* the top candidate; [0.93, 0.90] is ambiguous, [0.93, 0.80] fuzzy with the
\* top candidate, [0.97] exact, [0.4] no_match.
C7_AmbiguityPolicy ==
    (script = "search_icr" /\ pc # "off") =>
        /\ search_result.status = Policy
        /\ all_candidates # << >> => search_result.confidence = Top
        /\ search_result.status = "fuzzy_match" =>
              \E k \in 1 .. Len(all_candidates) :
                  /\ Scores[k] = Top
                  /\ search_result.best_match[1].scientific_name
                         = all_candidates[k].scientific_name
        /\ Scores = << 9300, 9000 >> => search_result.status = "ambiguous"
        /\ Scores = << 9300, 8000 >> =>
              /\ search_result.status = "fuzzy_match"
              /\ search_result.best_match[1].scientific_name
                     = all_candidates[1].scientific_name
        /\ Scores = << 9700 >> => search_result.status = "exact"
        /\ Scores = << 4000 >> => search_result.status = "no_match"

C7_Witness ==
    /\ script = "search_icr"
    /\ pc = "matched"
    /\ Scores = << 9300, 9000 >>
    /\ search_result.status = "ambiguous"

\* C8: a result search_icr classifies as ambiguous carries no selected match
\* (best_match is None) and write_outputs emits no link line for the name.
C8_AmbiguousSelectsNothing ==
    (script = "search_icr" /\ search_result.status = "ambiguous") =>
        /\ search_result.best_match = << >>
        /\ LinkLines(full_json) = << >>

---------------------------------------------------------------------------
\* Claims about acs_audit.py and acs_backfill_audit.py

\* The configured ceiling of the running function.
Ceiling ==
    IF script = "acs_backfill_audit.batch_validate" THEN workers ELSE CONCURRENCY

\* C9 (concurrency ceiling): under every interleaving of the tasks, never
\* more than the configured ceiling of URL probes execute at once: CONCURRENCY
\* check_url calls in run_audit and run_recovery, workers validate_url calls
\* in batch_validate.
C9_ConcurrencyCeiling ==
    script \in {"acs_audit.run_audit", "acs_audit.run_recovery",
                "acs_backfill_audit.batch_validate"}
        => Executing <= Ceiling

C9_Witness ==
    /\ script = "acs_audit.run_recovery"
    /\ Executing = CONCURRENCY
    /\ waiting[1] > 0
    /\ in_flight[2] > 0

---------------------------------------------------------------------------
\* Claims about the checkpoint of scripts/enrich_icr_chinese_name.py

\* C11: every checkpoint a run writes to disk has 0 <= next_index <=
\* total_urls, the one written at the startup of a resumed run whose loaded
\* next_index exceeds the current number of URLs included.
C11_CheckpointInRange ==
    (script = "enrich_icr_chinese_name" /\ last_saved # NoSave)
        => 0 <= last_saved /\ last_saved <= total

\* C12: a start without --resume discards the prior checkpoint and url cache:
\* once the fresh run has written its startup checkpoint the persisted
\* next_index is not ahead of the run, and no cache entry persisted before the
\* fresh start is in the memory of this run or of a later --resume run, a kill
\* before the end of the first unit included.
C12_FreshRunDiscards ==
    script = "enrich_icr_chinese_name" =>
        /\ \A u \in discarded : u \notin DOMAIN cache
        /\ (~args.resume /\ pc \in {"loop", "fetch", "log"})
              => DurableCheckpoint.next_index <= i

\* C13: on a resumed load load_best_checkpoint returns the readable mirror
\* with the highest next_index, among those the one with the latest
\* updated_at; an unreadable or absent mirror is ignored; the new checkpoint
\* at index 0 is returned only when no mirror is readable.
C13_BestMirror ==
    (script = "load_best_checkpoint" /\ pc = "loaded" /\ args.resume) =>
        LET ok == {p \in 1 .. NumMirrors : cp_files[p].state = "ok"}
        IN /\ checkpoint.path = 0 <=> ok = {}
           /\ checkpoint.path = 0 => checkpoint.next_index = 0
           /\ checkpoint.path # 0 =>
                 /\ checkpoint.path \in ok
                 /\ checkpoint.next_index = cp_files[checkpoint.path].next_index
                 /\ \A q \in ok :
                       \/ cp_files[q].next_index < checkpoint.next_index
                       \/ /\ cp_files[q].next_index = checkpoint.next_index
                          /\ cp_files[q].updated_at <= cp_files[checkpoint.path].updated_at

C13_Witness ==
    /\ script = "load_best_checkpoint" /\ pc = "loaded" /\ args.resume
    /\ cp_files[1].state = "ok" /\ cp_files[2].state = "ok"
    /\ cp_files[1].next_index = cp_files[2].next_index
    /\ cp_files[1].updated_at < cp_files[2].updated_at
    /\ checkpoint.path = 2

---------------------------------------------------------------------------
\* Claims about kills and failures of the three resumable scripts

\* C14: a kill at any instant, inside a file write included, leaves every
\* persisted store (checkpoint mirrors, url cache, progress file) whole, each
\* unit with its previous complete entry or none, and the next start loads
\* the store without an exception.
C14_StoreAlwaysLoadable ==
    /\ torn = {}
    /\ pc # "crashed"

\* The unit the run is working on: probed or about to be, its outcome not yet
\* through the save that ends the unit.
InHand ==
    IF script = "enrich_icr_chinese_name"
      THEN IF pc \in {"fetch", "log", "save_cp"} THEN {urls[i]}
           ELSE IF pc \in {"save_mirror", "save_cache"} THEN {urls[i - 1]}
           ELSE {}
    ELSE IF script = "image_enrich_strict"
      THEN IF pc \in Stopped \cup {"loop"} THEN {} ELSE {entries[i].name}
    ELSE IF script = "icr_match_audit"
      THEN IF pc \in {"query", "save"} THEN {NAMES[i]} ELSE {}
    ELSE {}

\* The persisted store holds the outcome the run has in memory for unit u.
Saved(u) ==
    IF script = "enrich_icr_chinese_name"
      THEN /\ u \in DOMAIN cache_file /\ u \in DOMAIN cache
           /\ cache_file[u] = save_url_cache(cache)[u]
           /\ DOMAIN cp_files = {1, 2}
           /\ \A p \in DOMAIN cp_files : cp_files[p].next_index > u
      ELSE /\ u \in DOMAIN progress_file /\ u \in DOMAIN progress
           /\ progress_file[u] = save_progress(progress)[u]

\* C15: the store is saved after each unit and before any probe of the next
\* one: whenever a run of image_enrich_strict, icr_match_audit or
\* enrich_icr_chinese_name is between two units or at work on a unit, every
\* other unit it has probed has its outcome in the persisted store, whichever
\* way the chain ended for it (found, ambiguous, missing, error).
C15_SavedBeforeNextProbe ==
    \A u \in probed \ InHand : Saved(u)

C15_Witness ==
    /\ script = "image_enrich_strict"
    /\ pc = "icr"
    /\ probed = {entries[0].name, entries[1].name}
    /\ InHand = {entries[1].name}
    /\ entries[0].name \in DOMAIN progress_file
    /\ progress_file[entries[0].name].status = "missing"

---------------------------------------------------------------------------
\* Claims about the source caches of image_enrich_strict.py

\* C16: try_socal and try_icr issue no network request for a name whose key
\* is present in the loaded SoCal / ICR cache, whatever the cached value is, a
\* null or empty value included.
C16_CacheEntryMeansNoProbe ==
    (script \in {"try_socal", "try_icr"} /\ pc = "returned" /\ args.cached # "absent")
        => search_result.requests = 0

---------------------------------------------------------------------------
\* Claims about failing probes

\* C17: a unit for which every strategy of the chain failed with a network or
\* parse error is recorded with the outcome error, not with the outcome of a
\* unit whose sources answered and had no image (missing).
C17_AllErrorsRecordedAsError ==
    (/\ script = "image_enrich_strict"
     /\ returned.name \in DOMAIN progress
     /\ Len(returned.rets) = 4
     /\ \A k \in 1 .. 4 : returned.rets[k] = "error")
        => progress[returned.name].status = "error"

\* The latest probe of the unit in hand failed at the transport layer (it
\* timed out, the connection failed, the status was not 200).
ProbeFailed ==
    \/ /\ script = "enrich_icr_chinese_name"
       /\ pc = "log"
       /\ urls[i] \in probed
       /\ cache[urls[i]].status = "failed"
    \/ /\ script = "image_enrich_strict"
       /\ returned.rets # << >>
       /\ returned.rets[Len(returned.rets)] = "error"
    \/ /\ script = "icr_match_audit"
       /\ pc = "save"
       /\ search_result.status = "error"

\* The run has left its loop with an outcome for every unit it had to process.
Completed ==
    /\ pc = "done"
    /\ script = "enrich_icr_chinese_name" =>
          /\ i >= total \/ LimitReached
          /\ \A u \in start_index .. i - 1 : urls[u] \in DOMAIN result_map
    /\ script = "image_enrich_strict" => Names \subseteq DOMAIN progress
    /\ script = "icr_match_audit" =>
          \A k \in 0 .. NumNames - 1 : NAMES[k] \in DOMAIN progress

\* C18: a transport failure of a single probe never ends the run: the probe
\* gives an error or not-found result, the chain goes on, and the main loop
\* processes the remaining units and leaves the loop normally, unless the
\* process is killed from outside.
C18_FailedProbeNeverAborts == ProbeFailed ~> (Completed \/ pc = "off")

C18_Witness ==
    /\ script = "enrich_icr_chinese_name"
    /\ Completed
    /\ probed = {urls[0], urls[1]}
    /\ result_map[urls[0]].status = "failed"
    /\ result_map[urls[0]].http_status = None
    /\ result_map[urls[1]].status = "ok"

C20_TimeoutReason ==
    (script \in {"check_url", "fetch_one"} /\ pc = "returned") =>
        (search_result.error = "timeout" <=> args.raised \in {"TimeoutError", "Timeout"})

---------------------------------------------------------------------------
\* Claims about the outputs

\* write_outputs (lines 217-219): the results with a status, in order.
Bucket(results, bucket_name) ==
    SelectSeq(results, LAMBDA r : r.status = bucket_name)

\* The failed count of the summary of enrich_icr_chinese_name (line 437).
FailedCount(c) == Cardinality({u \in DOMAIN c : c[u].status = "failed"})

\* C21: after a completed run every unit that ended in error is listed in an
\* error bucket of the outputs and in no other bucket: the [ERROR] section of
\* icr_match_audit, the failed log and failed count of
\* enrich_icr_chinese_name, and for image_enrich_strict a list other than the
\* one of the names for which no source had an image.
C21_ErrorsListed ==
    pc = "done" =>
        /\ script = "icr_match_audit" =>
             (\A name \in DOMAIN progress :
                  progress[name].status = "error" =>
                      /\ \E k \in 1 .. Len(Bucket(full_json, "error")) :
                            Bucket(full_json, "error")[k].input_name = name
                      /\ \A b \in {"exact", "fuzzy_match", "ambiguous", "no_match"} :
                            \A k \in 1 .. Len(Bucket(full_json, b)) :
                                Bucket(full_json, b)[k].input_name # name)
        /\ script = "enrich_icr_chinese_name" =>
             (/\ \A u \in DOMAIN result_map :
                    result_map[u].status = "failed" =>
                        \E line \in failed_log : urls[line.index] = u
              /\ FailedCount(result_map)
                    = Cardinality({u \in DOMAIN result_map : result_map[u].chinese_name = << >>
                                      /\ result_map[u].status \notin {"ok", "missing"}}))
        /\ (/\ script = "image_enrich_strict"
            /\ returned.name \in DOMAIN progress
            /\ Len(returned.rets) = 4
            /\ \A k \in 1 .. 4 : returned.rets[k] = "error")
               => [status |-> "missing"] \notin ImageOutcomes(returned.name)

Occurrences(data, entry) == Cardinality(Positions(data, LAMBDA e : e = entry))

\* C23: acs_image_backfill_scoped.py never overwrites an image: when the run
\* is over, every dataset entry that had a non-empty image before it is
\* still in the dataset with the same image and imageSource, also when
\* several entries share one stripped name.
C23_ExistingImagesKept ==
    (script = "acs_image_backfill_scoped" /\ pc = "done") =>
        \A k \in 1 .. NumRecords :
            HasImage(args.data[k]) =>
                Occurrences(search_result.data, args.data[k]) >= Occurrences(args.data, args.data[k])

\* The part of C23 that holds: entries of a stripped name that occurs once
\* keep their image.
C23_UniqueNamesKept ==
    (script = "acs_image_backfill_scoped" /\ pc = "done") =>
        \A k \in 1 .. NumRecords :
            (/\ HasImage(args.data[k])
             /\ \A j \in 1 .. NumRecords : strip(args.data[j].name) = strip(args.data[k].name) => j = k)
                => Occurrences(search_result.data, args.data[k]) >= 1

\* C24: after apply_fixes of acs_audit.py, every entry whose acs_url failed
\* the audit has the recovered URL or null, none keeps a failed URL, and
\* every entry whose acs_url passed (or that had none) is unchanged.
C24_FailedUrlsReplacedOrCleared ==
    (script = "acs_audit" /\ pc = "done") =>
        \A k \in 1 .. NumRecords :
            LET before == args.data[k]
                after  == search_result.data[k]
            IN  IF before.acs_url # None /\ ~IsValid(before.acs_url)
                  THEN after.acs_url = IF args.recovered[before.name.id] THEN "new_url" ELSE None
                  ELSE after = before

\* The part of C24 that holds: the same, for entries whose name occurs once.
C24_UniqueNamesFixed ==
    (script = "acs_audit" /\ pc = "done") =>
        \A k \in 1 .. NumRecords :
            LET before == args.data[k]
                after  == search_result.data[k]
            IN  (\A j \in 1 .. NumRecords : args.data[j].name = before.name => j = k) =>
                IF before.acs_url # None /\ ~IsValid(before.acs_url)
                  THEN after.acs_url = IF args.recovered[before.name.id] THEN "new_url" ELSE None
                  ELSE after = before

\* C25: acs_backfill_audit.py changes an entry's acs_url only to the URL of a
\* catalog record whose normalized name equals the entry's normalized name,
\* and only when that URL was validated live; an entry without a matching
\* record, or whose record's URL failed validation, keeps its acs_url.
C25_OnlyValidatedCatalogUrl ==
    (script = "acs_backfill_audit" /\ pc = "done") =>
        \A k \in 1 .. NumRecords :
            LET before == args.data[k]
                after  == search_result.data[k]
                rec    == acs_lookup(args.catalog, NormalizedName(before.name))
            IN  /\ after.name = before.name
                /\ after.acs_url # before.acs_url =>
                      \E r \in CatalogPositions :
                          /\ NormalizedName(args.catalog[r]) = NormalizedName(before.name)
                          /\ after.acs_url = CatalogUrl(r)
                          /\ args.validity[CatalogUrl(r)]
                /\ (rec = 0 \/ ~args.validity[CatalogUrl(rec)]) => after.acs_url = before.acs_url

\* A run in which one entry got the validated URL of its record, another
\* kept its URL because the record's URL failed validation, and the names of
\* entry and record differ before normalization.
C25_Witness ==
    /\ script = "acs_backfill_audit"
    /\ pc = "done"
    /\ \E k, j \in 1 .. NumRecords :
          LET rj == acs_lookup(args.catalog, NormalizedName(args.data[j].name))
              rk == acs_lookup(args.catalog, NormalizedName(args.data[k].name))
          IN  /\ search_result.data[k].acs_url # args.data[k].acs_url
              /\ args.catalog[rk] # args.data[k].name
              /\ rj # 0
              /\ ~args.validity[CatalogUrl(rj)]
              /\ args.data[j].acs_url # CatalogUrl(rj)

\* C26: after steps 4 to 6 of backfill_ocr_strict.py every OCR entry selected
\* for addition is in the regenerated data/camellias.json by stripped name:
\* the still-missing list of step7_audit is empty, also for names whose first
\* character is not a letter.
C26_NothingStillMissing ==
    (script = "backfill_ocr_strict" /\ pc = "done") => search_result.still_missing = << >>

\* The part of C26 that holds: the selected entries whose name begins with a
\* letter are in the regenerated camellias.json.
C26_LetterNamesPresent ==
    (script = "backfill_ocr_strict" /\ pc = "done") =>
        \A k \in 1 .. Len(search_result.to_add) :
            isalpha(search_result.to_add[k].name.first) =>
                strip(search_result.to_add[k].name) \in StrippedNames(search_result.data)

\* The scores of the candidates search_icr was given, in their order.
GivenScores == [k \in 1 .. Len(all_candidates) |-> all_candidates[k].score]

C28_NoCursorUpdateLost ==
    (script = "enrich_icr_chinese_name" /\ pc \notin {"off", "crashed", "aborted"}) =>
        i = start_index + processed_this_run

\* The step is search_icr returning for NAMES[i]; QueriesTried is the number
\* of variants it has queried when it returns (len(queries_tried)).
SearchIcrReturns ==
    script = "icr_match_audit" /\ pc \in {"loop", "query"} /\ pc' = "save"
QueriesTried == IF pc = "loop" THEN 1 ELSE variant.k + 1

\* C29: search_icr returns a non-match outcome (no_match or error) for a name
\* only after it has queried every one of the name's de-duplicated query
\* variants: a failed request for one variant does not end the probe while
\* untried variants remain.
C29_AllVariantsBeforeGivingUp ==
    [][(SearchIcrReturns /\ search_result'.status \in {"no_match", "error"})
          => QueriesTried = Len(query_variants(NAMES[i]))]_vars

\* The part of C29 that holds: no_match is returned after all variants only.
C29_NoMatchAfterAllVariants ==
    [][(SearchIcrReturns /\ search_result'.status = "no_match")
          => QueriesTried = Len(query_variants(NAMES[i]))]_vars

\* The step is main calling write_outputs (line 275 or line 288).
CallsWriteOutputs ==
    /\ script = "icr_match_audit"
    /\ \/ pc = "write" /\ pc' = "loop"
       \/ pc = "loop" /\ pc' = "done"

\* The position of a name in NAMES.
NameIndex(name) == CHOOSE k \in 0 .. NumNames - 1 : NAMES[k] = name

\* C30: the list icr_match_audit passes to write_outputs, after every unit and
\* at the end of the run, holds exactly the completed names, each once, with
\* its result, in the order of NAMES, whichever run completed them.
C30_OutputsInInputOrder ==
    [][CallsWriteOutputs =>
          /\ {full_json'[k].input_name : k \in 1 .. Len(full_json')} = DOMAIN progress
          /\ \A k \in 1 .. Len(full_json') : full_json'[k] = progress[full_json'[k].input_name]
          /\ \A j, k \in 1 .. Len(full_json') :
                j < k => NameIndex(full_json'[j].input_name) < NameIndex(full_json'[k].input_name)
      ]_vars

\* The final list of a resumed run: all names, the first ones completed by an
\* earlier run that was interrupted, the others by this one.
C30_Witness ==
    /\ script = "icr_match_audit"
    /\ pc = "done"
    /\ Len(full_json) = NumNames
    /\ NumNames > 1
    /\ start_store # EmptyMap
    /\ probed # {}
    /\ \A k \in 1 .. NumNames : full_json[k].input_name = NAMES[k - 1]

---------------------------------------------------------------------------
\* Claims about limits, lookups and recovery

\* What a run of enrich_icr_chinese_name with --max-urls has done so far, and
\* where it stands when its loop is left.
LimitKept ==
    script = "enrich_icr_chinese_name" =>
        /\ args.max_urls > 0 => processed_this_run <= args.max_urls
        /\ pc = "done" =>
              /\ i = IF args.max_urls > 0 THEN Min(start_index + args.max_urls, total) ELSE total
              /\ \A p \in DOMAIN cp_files : cp_files[p].next_index = i

\* C31: with --max-urls k > 0 a run of enrich_icr_chinese_name processes at
\* most k units, cache hits included, and stops with the persisted next_index
\* at min(start + k, total); a --resume run started after it continues from
\* exactly that index; with k = 0 the run goes on to total.
C31_MaxUrlsLimit ==
    [][/\ LimitKept'
       /\ (/\ script = "enrich_icr_chinese_name"
           /\ pc = "done"
           /\ pc' = "start_mirror"
           /\ args'.resume)
             => /\ checkpoint'.next_index = cp_files[1].next_index
                /\ StartIndex(checkpoint', TRUE) = cp_files[1].next_index
      ]_vars

\* A resumed run with --max-urls 1 that started where a limited run had
\* stopped, took its unit and stopped at the total.
C31_Witness ==
    /\ script = "enrich_icr_chinese_name"
    /\ pc = "done"
    /\ args.resume
    /\ args.max_urls = 1
    /\ start_index = 1
    /\ processed_this_run = 1
    /\ cp_files[1].next_index = 2

\* The page for variant k of the call has a result image whose alt text is
\* the queried name, case and surrounding spaces apart.
ExactAlt(k) ==
    \E j \in 1 .. Len(args.pages[k].imgs) :
        LowerStrip(args.pages[k].imgs[j]) = LowerStrip(QueryVariants(args.name)[k])

\* C32: try_accs_search returns a found image only when a result image's alt
\* text equals the queried name (case-insensitively, trimmed); when the first
\* query that returns results has no such image it returns AMBIGUOUS; it
\* returns not-found only when no query variant produced a result image.
C32_ExactAltTextOnly ==
    (script = "try_accs_search" /\ pc = "returned") =>
        LET n == Len(QueryVariants(args.name))
            WithResults == {k \in 1 .. n : args.pages[k].imgs # << >>}
        IN  /\ search_result.ret = "found" =>
                  /\ search_result.source = "accs"
                  /\ \E k \in 1 .. n : ExactAlt(k)
            /\ (\E k \in WithResults : ~ExactAlt(k) /\ \A j \in WithResults : k <= j) =>
                  search_result.img = "AMBIGUOUS"
            /\ search_result.img = None => WithResults = {}

\* The first query raised, the second returned two images, the second of
\* them with the name in other case: found.
C32_Witness ==
    /\ script = "try_accs_search"
    /\ pc = "returned"
    /\ Len(QueryVariants(args.name)) = 2
    /\ args.pages[1].raised
    /\ Len(args.pages[2].imgs) = 2
    /\ ~(LowerStrip(args.pages[2].imgs[1]) = LowerStrip(args.name))
    /\ args.pages[2].imgs[2].form = "varied"
    /\ search_result.ret = "found"

\* The catalog records of the call whose normalized name is that of name.
RecordsFor(name) ==
    {r \in CatalogPositions : NormalizedName(args.catalog[r]) = NormalizedName(name)}

\* C33: when several catalog records normalize to one key, the lookup of
\* acs_backfill_audit keeps the first in catalog order: every dataset entry of
\* that normalized name is matched to the first record's URL, which it gets
\* when the URL is live, and to no later record's.
C33_FirstCatalogRecordWins ==
    (script = "acs_backfill_audit" /\ pc = "done") =>
        \A k \in 1 .. NumRecords :
            LET before == args.data[k]
                after  == search_result.data[k]
                recs   == RecordsFor(before.name)
                first  == CHOOSE r \in recs : \A q \in recs : r <= q
            IN  recs # {} =>
                  /\ args.validity[CatalogUrl(first)] => after.acs_url = CatalogUrl(first)
                  /\ after.acs_url # before.acs_url => after.acs_url = CatalogUrl(first)

\* Two records of one normalized name, both pages live, and an entry of that
\* name that held the second record's URL: it has the first record's now.
C33_Witness ==
    /\ script = "acs_backfill_audit"
    /\ pc = "done"
    /\ NormalizedName(args.catalog[1]) = NormalizedName(args.catalog[2])
    /\ args.catalog[1] # args.catalog[2]
    /\ \A r \in CatalogPositions : args.validity[CatalogUrl(r)]
    /\ \E k \in 1 .. NumRecords :
          /\ NormalizedName(args.data[k].name) = NormalizedName(args.catalog[1])
          /\ args.data[k].acs_url = CatalogUrl(2)
          /\ search_result.data[k].acs_url = CatalogUrl(1)

\* C34: when attempt_recovery reports recovered, new_url differs from the
\* original URL and is a URL check_url found valid in this attempt; it
\* reports not recovered only after the deterministic URL (when it differs
\* from the original) and every slug variation were checked and none was
\* valid.
C34_RecoveredMeansValidated ==
    (script = "attempt_recovery" /\ pc = "returned") =>
        LET r == search_result
        IN  /\ r.recovered =>
                  /\ r.new_url # args.original_url
                  /\ r.new_url \in r.checked
                  /\ r.new_url \in args.live
            /\ ~r.recovered =>
                  /\ name_to_acs_url(args.name) # args.original_url =>
                        name_to_acs_url(args.name) \in r.checked
                  /\ \A v \in variations(args.name, args.original_url) :
                        ~IsEmptySlug(v) => UrlOf(v) \in r.checked
                  /\ r.checked \cap args.live = {}

\* The original URL is one of the variation URLs and answers now, the
\* deterministic URL does not, and another variation was recovered.
C34_Witness ==
    /\ script = "attempt_recovery"
    /\ pc = "returned"
    /\ search_result.recovered
    /\ search_result.method = "variation"
    /\ args.original_url \in args.live
    /\ LastSegment(args.original_url) \in variations_keep_original(args.name, NoUrl)
    /\ args.original_url.base = "letter"
    /\ Cardinality(search_result.checked) >= 2

\* How many times the three output lists of image_enrich_strict hold name.
BucketCount(name) ==
    Cardinality({j \in 1 .. Len(added) : added[j].name = name})
    + Cardinality({j \in 1 .. Len(skipped_ambiguous) : skipped_ambiguous[j].name = name})
    + Cardinality({j \in 1 .. Len(missing) : missing[j].name = name})

StatsTotal ==
    stats.socal + stats.accs + stats.acs + stats.icr + stats.ambiguous + stats.missing

\* C35: when the main loop of image_enrich_strict.py has completed, every
\* input entry is in exactly one of added / skipped_ambiguous / missing and
\* the six counts of stats sum to the number of input entries, whether an
\* outcome came from a live probe of this run or from saved progress.
C35_EveryEntryInOneBucket ==
    (script = "image_enrich_strict" /\ pc = "done") =>
        /\ \A k \in 0 .. NumEntries - 1 : BucketCount(entries[k].name) = 1
        /\ Len(added) + Len(skipped_ambiguous) + Len(missing) = NumEntries
        /\ StatsTotal = NumEntries
        /\ Len(added) = stats.socal + stats.accs + stats.acs + stats.icr
        /\ Len(skipped_ambiguous) = stats.ambiguous
        /\ Len(missing) = stats.missing

\* A completed run with one outcome from saved progress and one from a live
\* probe, one of them found and the other ambiguous.
C35_Witness ==
    /\ script = "image_enrich_strict"
    /\ pc = "done"
    /\ start_store # EmptyMap
    /\ probed # {}
    /\ Len(added) = 1
    /\ Len(skipped_ambiguous) = 1

\* C36: a failed fetch never erases existing data: a record whose icr_url
\* has a result of status failed in the result map keeps its non-empty
\* chinese_name through update_file.
C36_FailedFetchKeepsNames ==
    (script = "update_file" /\ pc = "done") =>
        \A k \in DOMAIN args.records :
            LET r == args.records[k]
            IN (/\ r.icr_url # NoIcrUrl
                /\ r.icr_url.u \in DOMAIN args.result_map
                /\ args.result_map[r.icr_url.u].status = "failed"
                /\ r.chinese_name # << >>)
               => search_result.data[k].chinese_name = r.chinese_name

\* The age of last_request_ts in the checkpoint a run started with --resume
\* would load now.
PersistedRequestAge ==
    load_best_checkpoint(ReadableFiles(cp_files, torn), FALSE).last_request_ts

\* C37: the rate limit survives a restart: wherever a run of
\* enrich_icr_chinese_name.py that has issued a live request is killed, the
\* persisted last_request_ts is not older than that request, so that the
\* resumed run waits out the delay before its first live request.
C37_RateLimitSurvivesRestart ==
    (script = "enrich_icr_chinese_name" /\ pc \notin Stopped /\ probed # {}) =>
        PersistedRequestAge <= since_request

\* C38: under every interleaving of the check_entry tasks of run_audit, when
\* run_audit returns done is the number of entries that have an acs_url and,
\* when the names of the entries are pairwise distinct, results holds the
\* result of every one of these entries.
C38_AllTasksCounted ==
    (script = "acs_audit.check_entry" /\ pc = "returned") =>
        LET data == args.data
            with_url == {k \in 1 .. Len(data) : data[k].acs_url # None}
        IN  /\ finished = Cardinality(with_url)
            /\ (\A j, k \in 1 .. Len(data) : data[j].name = data[k].name => j = k) =>
                  /\ DOMAIN results_by_name = {data[k].name : k \in with_url}
                  /\ \A k \in with_url :
                        /\ results_by_name[data[k].name].index = k
                        /\ results_by_name[data[k].name].original_url = data[k].acs_url
                        /\ results_by_name[data[k].name].action =
                              (IF data[k].acs_url = "live_url" THEN "ok" ELSE "needs_fix")

\* run_audit has returned on entries with distinct names, all with a URL,
\* one of them dead.
C38_Witness ==
    /\ script = "acs_audit.check_entry"
    /\ pc = "returned"
    /\ \A j, k \in 1 .. NumTasks : args.data[j].name = args.data[k].name => j = k
    /\ finished = NumTasks
    /\ \E k \in 1 .. NumTasks : results_by_name[args.data[k].name].action = "needs_fix"

\* A run of enrich_icr_chinese_name.py without --max-urls is alive.
UnlimitedRun ==
    /\ script = "enrich_icr_chinese_name"
    /\ pc \notin Stopped
    /\ args.max_urls = 0

\* The run has left its loop at the end of the URL list with a result for
\* every index from its start index on.
LeftLoopAtTotal ==
    /\ script = "enrich_icr_chinese_name"
    /\ pc = "done"
    /\ i = total
    /\ checkpoint.next_index = total
    /\ \A p \in DOMAIN cp_files : cp_files[p].next_index = total
    /\ \A u \in start_index .. total - 1 :
          /\ urls[u] \in DOMAIN result_map
          /\ \E line \in processed_log : line.index = u

\* A step of the loop of a run that stays alive moves the cursor by at most one, and
\* moves it only from a unit whose result is known and logged.
CursorStep ==
    (UnlimitedRun /\ pc # "start_mirror" /\ pc' # "off") =>
        /\ i' \in {i, i + 1}
        /\ pc = "save_cp" => i' = i + 1
        /\ i' = i + 1 =>
              /\ pc = "save_cp"
              /\ urls[i] \in DOMAIN cache
              /\ [index |-> i, status |-> cache[urls[i]].status] \in processed_log
        /\ pc' = "log" => (pc \in {"loop", "fetch"} /\ i' = i /\ i < total)

\* C39: a run of enrich_icr_chinese_name.py without --max-urls that is not
\* killed eventually leaves its main loop with next_index = total, having
\* processed each URL index from its start to total - 1 once, in increasing
\* order, whatever the outcome of each fetch.
C39_UnlimitedRunReachesTotal ==
    /\ UnlimitedRun ~> (LeftLoopAtTotal \/ pc = "off")
    /\ [][CursorStep]_vars

\* A resumed run without limit has left its loop at total after a fetch that
\* failed.
C39_Witness ==
    /\ LeftLoopAtTotal
    /\ args.max_urls = 0
    /\ args.resume
    /\ \E u \in 0 .. total - 1 : urls[u] \in probed /\ result_map[urls[u]].status = "failed"

\* C40: extract_size returns the label the description states: for every
\* label of SIZE_PATTERNS a description whose size phrase is that label
\* yields that label ("Large to very large" yields "Large to very large"
\* and not "Very large"), and a description without size phrase yields "".
C40_StatedSizeReturned ==
    (script = "extract_size" /\ pc = "returned") => search_result = args.stated

===========================================================================
